---- MODULE Spec2Model ----
(***************************************************************************)
(* The programs of the Stock-Analyst repository, one specification each.   *)
(*                                                                         *)
(* Candlestick dashboard, src/pages/1_..._Candlestick.py.  One run of      *)
(* main() loads the candle document, builds the enriched table             *)
(* (load_candlestick_data), applies the date-range filter of the sidebar,  *)
(* reduces the window with calculate_metrics and shows the risk level and  *)
(* the list of insights.                                                   *)
(*                                                                         *)
(* OHLC page, src/pages/2_..._OHLC_Analysis.py: parse_stock_data over a    *)
(* market snapshot.  MCP tools, src/modelcp.py: get_ohlc and               *)
(* fetch_historical_candles.  Analyst, src/StockAnalyst.py: the loop over  *)
(* the tool calls of the model's reply.  OAuth callback, src/main.py.      *)
(* File server, src/expose_files.py: container(), its timeout thread and   *)
(* its exit handler.  While one program runs the others stay idle.         *)
(*                                                                         *)
(* Numbers.  Prices of the documents are integers.  The volume column and  *)
(* every derived float hold exact values of the extended rationals: a      *)
(* reduced fraction, NaN (a missing value of pandas) or +/-infinity,       *)
(* with the IEEE-754 rules for division by zero.  Rounding error of the    *)
(* binary64 arithmetic is not modelled.  A standard deviation is kept as   *)
(* the square root of an exact variance.                                   *)
(***************************************************************************)
EXTENDS Integers, Sequences, FiniteSets, TLC

\* ------------------------------------------------------------------ bounds
\* Longest candle batch of a document.
MaxLen == 51

\* Longest candle batch of a document with a cell that is not a number.
MaxRawLen == 6

\* Longest candle batch of a document whose metrics sit on a threshold.
MaxBoundaryLen == 16

\* Longest candle batch of the documents of a session with several documents.
MaxSessionLen == 4

\* Number of changes of the file path within a session.
MaxChanges == 2

\* Longest candle batch of an uploaded document with a cell that is not a number.
MaxUploadRawLen == 2

\* Largest number of instruments in a quote snapshot.
MaxInstruments == 2

\* Largest number of tool calls in a reply of the LLM.
MaxToolCalls == 3

\* Number of callbacks the server receives.
MaxCallbacks == 4

\* -------------------------------------------------------------------- state
\* The dashboard of pages/1_Candlestick.py; a step is one run of main().
VARIABLES
    doc,             \* candles of the JSON document behind file_path
    uploaded_file,   \* the file in the file_uploader widget, None without one
    sort_rule,       \* the order this installation's sort gives equal keys
    changes,         \* how often file_path was changed in this session
    selected_range,  \* value of the date_input widget
    df,              \* table of the last run
    filtered_df,     \* window of the last run
    metrics,         \* calculate_metrics(filtered_df) of the last run
    risk_level,      \* risk level shown by the last run, "" without one
    insights,        \* insights listed by the last run, in their order
    status           \* "idle", then how the last run of main() ended

\* What a run of main() reads, and what it leaves behind
inputVars == <<doc, uploaded_file, sort_rule, changes>>

runVars == <<selected_range, df, filtered_df, metrics, risk_level, insights,
             status>>

candleVars == <<inputVars, runVars>>

\* The page of pages/2_OHLC_Analysis.py; a step is one run of the script.
VARIABLES
    json_data,        \* the document json.load read from ohlc.json
    stocks,           \* what parse_stock_data returned in the last run
    selected_symbol,  \* value of the selectbox widget, "" while it is not shown
    page              \* "idle", then what the last run showed

snapshotVars == <<json_data, stocks, selected_symbol, page>>

\* The tools of modelcp.py; a step is one call of a tool.
VARIABLES
    ohlc_json,              \* content of the file ohlc.json
    historic_candles_json,  \* content of the file historic_candles.json
    tool,                   \* the tool called last, "" before the first call
    response,               \* what requests.get gave the last call
    returned                \* how the last call ended

toolVars == <<ohlc_json, historic_candles_json, tool, response, returned>>

\* The page of StockAnalyst.py; a step is the part of process() up to its
\* next await.
VARIABLES
    tool_calls,      \* the tool calls of the reply, in their order
    position,        \* index of the tool call the loop is at
    raws,            \* the outputs of the tool calls executed in this run
    result_content,  \* the local variable of process()
    final_prompt,    \* the data in the prompt of the final analysis
    session_result,  \* st.session_state["result"]
    phase            \* "idle", "calling", "analysing", "done", "crashed"

analystVars == <<tool_calls, position, raws, result_content, final_prompt,
                 session_result, phase>>

\* The server of main.py; a step is the part of callback() up to the next
\* answer of the Upstox API.
VARIABLES
    code,       \* the query parameter "code" of the callback being served
    outgoing,   \* the requests this callback has sent, in their order
    tokens,     \* the JSON of the token response
    html,       \* the page returned to the browser
    callbacks,  \* number of callbacks received
    pc          \* "listening", or the request callback() waits in

callbackVars == <<code, outgoing, tokens, html, callbacks, pc>>

\* The file server of expose_files.py; a step is a statement of container()
\* that starts or asks something, the wake-up of the timeout thread, or the
\* end of the program.
VARIABLES
    name,        \* the argument of container(), as its code points
    at,          \* where container() is, "idle" before the call
    exception,   \* the exception that left container(), or "none"
    httpd,       \* the HTTP server: "none", "serving", "shut_down", "killed"
    ngrok,       \* the ngrok process: "none", "running", "terminated"
    registered,  \* cleanup is registered with atexit
    timer,       \* the timeout thread: "none", "sleeping", "done", "killed"
    cleanups,    \* number of runs of cleanup()
    process      \* the Python process: "running", "exited"

containerVars == <<name, at, exception, httpd, ngrok, registered, timer, cleanups, process>>

\* The variables of the other programs
exceptCandles == <<snapshotVars, toolVars, analystVars, callbackVars, containerVars>>

exceptSnapshot == <<candleVars, toolVars, analystVars, callbackVars, containerVars>>

exceptTools == <<candleVars, snapshotVars, analystVars, callbackVars, containerVars>>

exceptAnalyst == <<candleVars, snapshotVars, toolVars, callbackVars, containerVars>>

exceptCallback == <<candleVars, snapshotVars, toolVars, analystVars, containerVars>>

exceptContainer == <<candleVars, snapshotVars, toolVars, analystVars, callbackVars>>

\* ------------------------------------------------------- program constants
SMA_SHORT == 5
SMA_MID == 20
SMA_LONG == 50
RSI_WINDOW == 14
BB_WINDOW == 20
BB_WIDTH == 2
PERCENT == 100
RISK_HIGH == 3
RISK_MODERATE == 2
WIN_RATE_HIGH == 60
WIN_RATE_LOW == 40
VOLATILITY_HIGH == 4
VOLATILITY_LOW == 2
RECENT_BARS == 5
RSI_OVERBOUGHT == 70
RSI_OVERSOLD == 30

\* ------------------------------------------------ extended rational numbers
RECURSIVE Gcd(_, _)
Gcd(a, b) == IF b = 0 THEN a ELSE Gcd(b, a % b)

Abs(x) == IF x < 0 THEN -x ELSE x

Sign(x) == IF x < 0 THEN -1 ELSE IF x > 0 THEN 1 ELSE 0

NaN == [k |-> "nan", n |-> 0, d |-> 1]

Inf(s) == [k |-> "inf", n |-> s, d |-> 1]

\* The fraction n/d (d # 0) in lowest terms with a positive denominator.
Frac(n, d) ==
    LET g == Gcd(Abs(n), Abs(d))
        s == IF d < 0 THEN -1 ELSE 1
    IN  [k |-> "num", n |-> s * (n \div g), d |-> s * (d \div g)]

Num(n) == [k |-> "num", n |-> n, d |-> 1]

IsNaN(x) == x.k = "nan"

IsNum(x) == x.k = "num"

IsInf(x) == x.k = "inf"

\* float addition
FAdd(x, y) ==
    IF IsNaN(x) \/ IsNaN(y) THEN NaN
    ELSE IF IsInf(x) /\ IsInf(y) THEN (IF x.n = y.n THEN x ELSE NaN)
    ELSE IF IsInf(x) THEN x
    ELSE IF IsInf(y) THEN y
    ELSE Frac(x.n * y.d + y.n * x.d, x.d * y.d)

FNeg(x) == IF IsNaN(x) THEN NaN ELSE [x EXCEPT !.n = -x.n]

FSub(x, y) == FAdd(x, FNeg(y))

\* float multiplication
FMul(x, y) ==
    IF IsNaN(x) \/ IsNaN(y) THEN NaN
    ELSE IF IsInf(x) \/ IsInf(y)
         THEN (IF x.n = 0 \/ y.n = 0 THEN NaN ELSE Inf(Sign(x.n) * Sign(y.n)))
    ELSE Frac(x.n * y.n, x.d * y.d)

\* float division: x/0 is +/-inf for x # 0 and NaN for x = 0; no exception
FDiv(x, y) ==
    IF IsNaN(x) \/ IsNaN(y) THEN NaN
    ELSE IF IsInf(x) THEN (IF IsInf(y) THEN NaN
                           ELSE Inf(x.n * (IF y.n < 0 THEN -1 ELSE 1)))
    ELSE IF IsInf(y) THEN Num(0)
    ELSE IF y.n = 0 THEN (IF x.n = 0 THEN NaN ELSE Inf(Sign(x.n)))
    ELSE Frac(x.n * y.d, x.d * y.n)

\* x > y as the float comparison: False as soon as one side is NaN
FGt(x, y) ==
    /\ ~IsNaN(x)
    /\ ~IsNaN(y)
    /\ IF IsInf(x) THEN x.n = 1 /\ ~(IsInf(y) /\ y.n = 1)
       ELSE IF IsInf(y) THEN y.n = -1
       ELSE x.n * y.d > y.n * x.d

FLt(x, y) == FGt(y, x)

\* A function on 1..n as a sequence of values.
AsSeq(f) == <<>> \o f

\* x[lo] + ... + x[hi] of integers, by halves
RECURSIVE SumRange(_, _, _)
SumRange(x, lo, hi) ==
    IF hi < lo THEN 0
    ELSE IF lo = hi THEN x[lo]
    ELSE LET mid == (lo + hi) \div 2
         IN  SumRange(x, lo, mid) + SumRange(x, mid + 1, hi)

\* x[lo] + ... + x[hi] of floats, by halves
RECURSIVE FSumRange(_, _, _)
FSumRange(x, lo, hi) ==
    IF hi < lo THEN Num(0)
    ELSE IF lo = hi THEN x[lo]
    ELSE LET mid == (lo + hi) \div 2
         IN  FAdd(FSumRange(x, lo, mid), FSumRange(x, mid + 1, hi))

\* a + c * sqrt(v): the value of a band built from a standard deviation
Surd(a, c, v) ==
    IF IsNaN(a) \/ IsNaN(v) THEN NaN
    ELSE [k |-> "surd", base |-> a, coef |-> c, rad |-> v]

\* ------------------------------------------------------------ JSON values
\* The cells of a candle as json.load hands them over: an int for a JSON
\* number, an ISO 8601 str for a timestamp, None for null, the floats nan
\* and inf for the literals NaN and Infinity, or a str that is neither a
\* number nor a date.
JsonNumber(n) == [type |-> "number", value |-> n]

JsonDate(ts) == [type |-> "date", value |-> ts]

JsonNull == [type |-> "null", value |-> 0]

JsonNaN == [type |-> "NaN", value |-> 0]

JsonInfinity == [type |-> "Infinity", value |-> 0]

JsonText == [type |-> "text", value |-> 0]

\* --------------------------------------------------------- candle documents
\* Close prices of a history: flat, one step up or down after the third bar,
\* or up and down in turn.
Patterns == {"flat", "step_up", "step_down", "zigzag"}

\* Closes that put a metric on a threshold of the insights; the last close
\* is repeated.  "swing_p": returns of -p %, 0 and +p %, then 0, so that the
\* standard deviation of the first three returns is p and that of the first
\* nine is p / 2.  "rsi_70" and "rsi_30": rises and falls of 21 and 9.
BoundaryCloses ==
    [swing_4 |-> <<625, 600, 600, 624>>,
     swing_6 |-> <<2500, 2350, 2350, 2491>>,
     swing_8 |-> <<625, 575, 575, 621>>,
     rsi_70 |-> <<12, 3, 6, 12, 24>>,
     rsi_30 |-> <<24, 12, 6, 3, 12>>]

CloseOf(pattern, i) ==
    IF pattern \in DOMAIN BoundaryCloses
    THEN LET closes == BoundaryCloses[pattern]
         IN  closes[IF i <= Len(closes) THEN i ELSE Len(closes)]
    ELSE IF pattern = "flat" THEN 2
    ELSE IF pattern = "step_up" THEN (IF i <= 3 THEN 2 ELSE 4)
    ELSE IF pattern = "step_down" THEN (IF i <= 3 THEN 4 ELSE 2)
    ELSE IF i % 2 = 1 THEN 2 ELSE 4

\* Bars around a close c: green (close > open), red, a bar whose open is 0,
\* and a bar with a range anomaly (high < low) and close = open.
BarStyles == {"green", "red", "zero_open", "anomaly"}

OpenOf(style, c) ==
    IF style = "green" THEN c - 1
    ELSE IF style = "red" THEN c + 1
    ELSE IF style = "zero_open" THEN 0 ELSE c

HighOf(style, c) ==
    IF style = "zero_open" THEN c ELSE IF style = "anomaly" THEN c - 1 ELSE c + 1

LowOf(style, c) == IF style = "anomaly" THEN c + 1 ELSE c - 1

\* The histories of the documents: the closes, the styles of the odd and of
\* the even bars, the timestamps (one bar a day; or "irregular": two bars of
\* the same timestamp and days without a bar) and the order of delivery.
Histories ==
    { [pattern |-> "flat", motif |-> <<"green", "green">>,
       mode |-> "daily", order |-> "newest_first"],
      [pattern |-> "step_up", motif |-> <<"green", "red">>,
       mode |-> "irregular", order |-> "interleaved"],
      [pattern |-> "step_down", motif |-> <<"red", "zero_open">>,
       mode |-> "daily", order |-> "newest_first"],
      [pattern |-> "zigzag", motif |-> <<"zero_open", "anomaly">>,
       mode |-> "irregular", order |-> "newest_first"],
      [pattern |-> "zigzag", motif |-> <<"anomaly", "red">>,
       mode |-> "daily", order |-> "interleaved"],
      [pattern |-> "step_up", motif |-> <<"green", "green">>,
       mode |-> "daily", order |-> "oldest_first"] }

\* Timestamp of the i-th bar in time, in half days.
TsOf(mode, i) ==
    IF mode = "daily" THEN 2 * i
    ELSE IF i <= 2 THEN 2 ELSE IF i = 3 THEN 5 ELSE 2 * i + 4

\* The i-th bar in time of a history, as a candle
\* [timestamp, open, high, low, close, volume, oi].
BarOf(pattern, motif, mode, i) ==
    LET c == CloseOf(pattern, i)
        style == motif[2 - (i % 2)]
    IN  [timestamp |-> JsonDate(TsOf(mode, i)),
         open |-> JsonNumber(OpenOf(style, c)),
         high |-> JsonNumber(HighOf(style, c)),
         low |-> JsonNumber(LowOf(style, c)),
         close |-> JsonNumber(c),
         volume |-> JsonNumber(10 * c + (i % 2)),
         oi |-> JsonNumber(0)]

\* Position in time of the j-th delivered candle.
DeliveryIndex(order, n, j) ==
    IF order = "oldest_first" THEN j
    ELSE IF order = "newest_first" THEN n + 1 - j
    ELSE IF 2 * j <= n + 1 THEN 2 * j - 1 ELSE 2 * (j - (n + 1) \div 2)

\* data['data']['candles'] of the document with the first n bars of h
Candles(h, n) ==
    AsSeq([j \in 1..n |->
        BarOf(h.pattern, h.motif, h.mode, DeliveryIndex(h.order, n, j))])

Documents == { Candles(h, n) : h \in Histories, n \in 0..MaxLen }

BoundaryHistories ==
    { [pattern |-> "swing_4", motif |-> <<"green", "green">>,
       mode |-> "daily", order |-> "oldest_first"],
      [pattern |-> "swing_6", motif |-> <<"green", "red">>,
       mode |-> "daily", order |-> "newest_first"],
      [pattern |-> "swing_8", motif |-> <<"red", "green">>,
       mode |-> "daily", order |-> "interleaved"],
      [pattern |-> "rsi_70", motif |-> <<"green", "red">>,
       mode |-> "daily", order |-> "oldest_first"],
      [pattern |-> "rsi_30", motif |-> <<"red", "green">>,
       mode |-> "daily", order |-> "newest_first"] }

BoundaryDocuments ==
    { Candles(h, n) : h \in BoundaryHistories, n \in 1..MaxBoundaryLen }

\* Cells that are not a number: text in any column that is converted, and
\* null, NaN or Infinity in the volume column.
numeric_columns == {"open", "high", "low", "close", "volume"}

Defects ==
    { <<column, JsonText>> : column \in numeric_columns \cup {"timestamp"} }
        \cup { <<"volume", cell>> : cell \in {JsonNull, JsonNaN, JsonInfinity} }

\* The batch with the cell of one column of its k-th candle replaced.
WithCell(candles, k, column, cell) ==
    [candles EXCEPT ![k] = [candles[k] EXCEPT ![column] = cell]]

\* Documents with one such cell among well-formed candles.
RawDocumentsOf(h, n) ==
    { WithCell(Candles(h, n), k, defect[1], defect[2]) :
        k \in 1..n, defect \in Defects }

RawDocuments ==
    UNION { RawDocumentsOf(h, n) : h \in Histories, n \in 1..MaxRawLen }

\* ---------------------------------------------------- load_candlestick_data
\* timestamp.dt.date: timestamps count half days
DateOf(ts) == ts \div 2

\* pd.to_datetime of a cell: the time of an ISO 8601 string.  A str that is
\* no date raises (CanConvert).
to_datetime(cell) == cell.value

\* pd.to_numeric of a cell, as a float: the number itself, NaN for None and
\* nan, inf for inf.  A str that is no number raises (CanConvert).
to_numeric(cell) ==
    IF cell.type = "number" THEN Num(cell.value)
    ELSE IF cell.type = "Infinity" THEN Inf(1)
    ELSE NaN

\* The value of an int64 cell.  The documents have numbers in open, high,
\* low and close, so these columns stay int64.
int64(x) == CHOOSE n \in {x.n} : IsNum(x) /\ x.d = 1

\* Neither to_datetime (line 72) nor to_numeric (line 78) raises.
CanConvert(candles) ==
    \A j \in 1..Len(candles) :
        /\ candles[j].timestamp.type = "date"
        /\ \A column \in numeric_columns : candles[j][column].type # "text"

\* pd.DataFrame(candles, columns), to_datetime, the date column, to_numeric
ParseCandles(candles) ==
    AsSeq([j \in 1..Len(candles) |->
        [timestamp |-> to_datetime(candles[j].timestamp),
         date |-> DateOf(to_datetime(candles[j].timestamp)),
         open |-> int64(to_numeric(candles[j].open)),
         high |-> int64(to_numeric(candles[j].high)),
         low |-> int64(to_numeric(candles[j].low)),
         close |-> int64(to_numeric(candles[j].close)),
         volume |-> to_numeric(candles[j].volume)]])

\* The rows in ascending order of timestamp, rows of equal timestamp in
\* their order of arrival: row j goes to the position that counts the rows
\* that come before it.
StableSort(rows) ==
    LET n == Len(rows)
        rank == AsSeq([j \in 1..n |->
                   Cardinality({i \in 1..n :
                       \/ rows[i].timestamp < rows[j].timestamp
                       \/ rows[i].timestamp = rows[j].timestamp /\ i <= j})])
    IN  AsSeq([p \in 1..n |-> rows[CHOOSE j \in 1..n : rank[j] = p]])

SwapRows(s, k) == [s EXCEPT ![k] = s[k + 1], ![k + 1] = s[k]]

\* Variant: the rows stay in their order of delivery.
sort_values_keeps_order(rows) == {rows}

\* df.sort_values('timestamp').reset_index(drop=True): the default sort is
\* not stable, rows of equal timestamp come out in either order.
sort_values(rows) ==
    LET st == StableSort(rows)
    IN  {st} \cup { SwapRows(st, k) :
                      k \in {q \in 1..(Len(st) - 1) :
                                st[q].timestamp = st[q + 1].timestamp} }

\* Running totals x[lo], x[lo] + x[lo+1], ... of rows lo..hi, by halves
RECURSIVE RunningTotals(_, _, _)
RunningTotals(x, lo, hi) ==
    IF hi < lo THEN <<>>
    ELSE IF lo = hi THEN <<x[lo]>>
    ELSE LET mid == (lo + hi) \div 2
             left == RunningTotals(x, lo, mid)
             right == RunningTotals(x, mid + 1, hi)
         IN  left \o [j \in 1..Len(right) |-> left[Len(left)] + right[j]]

\* Running totals of a column: <<0, x[1], x[1] + x[2], ...>>
cumsum(x) == <<0>> \o RunningTotals(x, 1, Len(x))

\* Variant: min_periods = 1, a mean of the rows there are.
rolling_mean_min_periods_1(x, w) ==
    LET total == cumsum(x)
    IN  AsSeq([i \in 1..Len(x) |->
            IF i >= w THEN Frac(total[i + 1] - total[i + 1 - w], w)
            ELSE Frac(total[i + 1], i)])

\* Series.rolling(window=w).mean() of an integer column: the sum of the
\* window is what entered minus what left, and a value is given once
\* min_periods = w observations are in.
rolling_mean(x, w) ==
    LET total == cumsum(x)
    IN  AsSeq([i \in 1..Len(x) |->
            IF i >= w THEN Frac(total[i + 1] - total[i + 1 - w], w) ELSE NaN])

\* Variant: the population variance (ddof = 0).
rolling_var_population(x, w) ==
    LET total == cumsum(x)
        squares == cumsum(AsSeq([i \in 1..Len(x) |-> x[i] * x[i]]))
    IN  AsSeq([i \in 1..Len(x) |->
            IF i >= w
            THEN LET s == total[i + 1] - total[i + 1 - w]
                     q == squares[i + 1] - squares[i + 1 - w]
                 IN  Frac(w * q - s * s, w * w)
            ELSE NaN])

\* Series.rolling(window=w).std() squared: the sample variance (ddof = 1) of
\* the window, from its sum and its sum of squares.
rolling_var(x, w) ==
    LET total == cumsum(x)
        squares == cumsum(AsSeq([i \in 1..Len(x) |-> x[i] * x[i]]))
    IN  AsSeq([i \in 1..Len(x) |->
            IF i >= w /\ w > 1
            THEN LET s == total[i + 1] - total[i + 1 - w]
                     q == squares[i + 1] - squares[i + 1 - w]
                 IN  Frac(w * q - s * s, w * (w - 1))
            ELSE NaN])

\* Series.diff(): NaN in the first row
diff(x) ==
    AsSeq([i \in 1..Len(x) |-> IF i = 1 THEN NaN ELSE Num(x[i] - x[i - 1])])

\* Series.pct_change(): x / x.shift(1) - 1, NaN in the first row
pct_change(x) ==
    AsSeq([i \in 1..Len(x) |->
        IF i = 1 THEN NaN ELSE FSub(FDiv(Num(x[i]), Num(x[i - 1])), Num(1))])

\* delta.where(delta > 0, 0): 0 wherever the condition is False, the NaN of
\* the first row included
gain_of(delta) ==
    AsSeq([i \in 1..Len(delta) |->
        IF FGt(delta[i], Num(0)) THEN delta[i].n ELSE 0])

\* -delta.where(delta < 0, 0)
loss_of(delta) ==
    AsSeq([i \in 1..Len(delta) |->
        IF FLt(delta[i], Num(0)) THEN -delta[i].n ELSE 0])

\* Variant: a zero loss average leaves the ratio, and the RSI, undefined.
rsi_of_undefined_on_zero_loss(gain, loss) ==
    IF IsNum(loss) /\ loss.n = 0 THEN NaN
    ELSE FSub(Num(PERCENT), FDiv(Num(PERCENT), FAdd(Num(1), FDiv(gain, loss))))

\* 100 - (100 / (1 + rs)) with rs = gain / loss
rsi_of(gain, loss) ==
    FSub(Num(PERCENT), FDiv(Num(PERCENT), FAdd(Num(1), FDiv(gain, loss))))

Max2(a, b) == IF a >= b THEN a ELSE b

Min2(a, b) == IF a <= b THEN a ELSE b

\* The derived columns of the sorted table.
Enrich(rows) ==
    LET n == Len(rows)
        close == AsSeq([i \in 1..n |-> rows[i].close])
        ret == pct_change(close)
        sma5 == rolling_mean(close, SMA_SHORT)
        sma20 == rolling_mean(close, SMA_MID)
        sma50 == rolling_mean(close, SMA_LONG)
        delta == diff(close)
        gain == rolling_mean(gain_of(delta), RSI_WINDOW)
        loss == rolling_mean(loss_of(delta), RSI_WINDOW)
        mid == rolling_mean(close, BB_WINDOW)
        var == rolling_var(close, BB_WINDOW)
    IN  AsSeq([i \in 1..n |->
          LET r == rows[i] IN
            [timestamp |-> r.timestamp,
             date |-> r.date,
             open |-> r.open,
             high |-> r.high,
             low |-> r.low,
             close |-> r.close,
             volume |-> r.volume,
             daily_return |-> FMul(ret[i], Num(PERCENT)),
             volatility |->
                 FMul(FDiv(Num(r.high - r.low), Num(r.open)), Num(PERCENT)),
             body_size |-> Abs(r.close - r.open),
             upper_shadow |-> r.high - Max2(r.open, r.close),
             lower_shadow |-> Min2(r.open, r.close) - r.low,
             is_green |-> r.close > r.open,
             price_range |-> r.high - r.low,
             mid_price |-> Frac(r.high + r.low, 2),
             sma_5 |-> sma5[i],
             sma_20 |-> sma20[i],
             sma_50 |-> sma50[i],
             rsi |-> rsi_of(gain[i], loss[i]),
             bb_middle |-> mid[i],
             bb_upper |-> Surd(mid[i], BB_WIDTH, var[i]),
             bb_lower |-> Surd(mid[i], -BB_WIDTH, var[i])]])

\* The value None, and a DataFrame with its rows in index order.
None == [kind |-> "None"]

DataFrame(rows) == [kind |-> "DataFrame", rows |-> rows]

\* Variant: the derived columns are computed before the rows are sorted.
load_derives_before_sort(candles) ==
    { DataFrame(sorted) : sorted \in sort_values(Enrich(ParseCandles(candles))) }

\* Variant: a candle that does not convert is left out of the table.
load_skips_bad_candles(candles) ==
    LET good == SelectSeq(candles, LAMBDA c : CanConvert(<<c>>))
    IN  { DataFrame(Enrich(sorted)) : sorted \in sort_values(ParseCandles(good)) }

\* Variant: the table of an earlier call is kept and returned again.
load_candlestick_data_cached(candles) ==
    IF df # None THEN {df}
    ELSE IF ~CanConvert(candles) THEN {None}
    ELSE { DataFrame(Enrich(sorted)) : sorted \in sort_values(ParseCandles(candles)) }

\* The values load_candlestick_data can return for the candles of a
\* document: None when a conversion raised (lines 113-115), the table
\* otherwise.
load_candlestick_data(candles) ==
    IF ~CanConvert(candles) THEN {None}
    ELSE { DataFrame(Enrich(sorted)) : sorted \in sort_values(ParseCandles(candles)) }

\* --------------------------------------------------------- calculate_metrics
SetMax(S) == CHOOSE m \in S : \A x \in S : x <= m

SetMin(S) == CHOOSE m \in S : \A x \in S : m <= x

NotNaN(x) == ~IsNaN(x)

\* Series.dropna()
dropna(x) == SelectSeq(x, NotNaN)

\* Series.sum(): the sum of the values that are not NaN
sum(x) ==
    LET values == dropna(x)
    IN  FSumRange(values, 1, Len(values))

\* Series.mean(): the mean of the values that are not NaN, NaN without any
mean(x) ==
    LET values == dropna(x)
    IN  FDiv(FSumRange(values, 1, Len(values)), Num(Len(values)))

\* Series.std(): the sample standard deviation (ddof = 1) of the values,
\* sqrt((n * sum(x^2) - sum(x)^2) / (n * (n - 1))); 0/0 = NaN for one value
std(x) ==
    LET n == Len(x)
        s == FSumRange(x, 1, n)
        q == FSumRange(AsSeq([i \in 1..n |-> FMul(x[i], x[i])]), 1, n)
    IN  Surd(Num(0), 1,
             FDiv(FSub(FMul(Num(n), q), FMul(s, s)), Num(n * (n - 1))))

\* Variant: the first close of the window instead of the one before the last.
previous_price_of_first(w) == w[1].close

\* df['close'].iloc[-2] if len(df) > 1 else current_price
previous_price_of(w) ==
    IF Len(w) > 1 THEN w[Len(w) - 1].close ELSE w[Len(w)].close

\* Variant: the bars that closed below their open.
red_days_counts_falls(w, green_days) ==
    Cardinality({i \in 1..Len(w) : w[i].close < w[i].open})

\* red_days = len(df) - green_days
red_days_of(w, green_days) == Len(w) - green_days

\* The dict calculate_metrics returns for the rows of a table ({} is <<>>).
calculate_metrics(table) ==
    IF table = None \/ table.rows = <<>> THEN <<>>
    ELSE
      LET w == table.rows
          n == Len(w)
          current_price == w[n].close
          previous_price == previous_price_of(w)
          price_change == current_price - previous_price
          returns == dropna([i \in 1..n |-> w[i].daily_return])
          green_days == Cardinality({i \in 1..n : w[i].is_green})
      IN  [current_price |-> current_price,
           price_change |-> price_change,
           price_change_pct |->
               IF previous_price # 0
               THEN FMul(FDiv(Num(price_change), Num(previous_price)), Num(PERCENT))
               ELSE Num(0),
           max_price |-> SetMax({w[i].high : i \in 1..n}),
           min_price |-> SetMin({w[i].low : i \in 1..n}),
           avg_volume |-> mean([i \in 1..n |-> w[i].volume]),
           total_volume |-> sum([i \in 1..n |-> w[i].volume]),
           volatility |-> IF Len(returns) > 0 THEN std(returns) ELSE Num(0),
           green_days |-> green_days,
           red_days |-> red_days_of(w, green_days),
           win_rate |-> FMul(Frac(green_days, n), Num(PERCENT)),
           recent_trend |->
               IF FGt(Num(w[n].close), w[n].sma_5) THEN "Bullish" ELSE "Bearish",
           total_days |-> n]

\* ---------------------------------------------------------------- main()
min_date(t) == SetMin({t.rows[i].date : i \in 1..Len(t.rows)})

max_date(t) == SetMax({t.rows[i].date : i \in 1..Len(t.rows)})

InRange(r, range) == r.date >= range[1] /\ r.date <= range[2]

\* Variant: the derived columns are computed anew over the rows of the range.
FilterRange_rederived(t, range) ==
    IF Len(range) = 2
    THEN DataFrame(Enrich(SelectSeq(t.rows, LAMBDA r : InRange(r, range))))
    ELSE t

\* df.loc[mask].copy() for a complete range, df.copy() while only one end of
\* the range is chosen
FilterRange(t, range) ==
    IF Len(range) = 2
    THEN DataFrame(SelectSeq(t.rows, LAMBDA r : InRange(r, range)))
    ELSE t

\* x > t and x < t for a metric x and a threshold t > 0; the root of a
\* variance v is compared through v and t * t.  False when x is NaN.
ValueGt(x, t) ==
    IF x.k = "surd" THEN FGt(x.rad, Num(t * t)) ELSE FGt(x, Num(t))

ValueLt(x, t) ==
    IF x.k = "surd" THEN FLt(x.rad, Num(t * t)) ELSE FLt(x, Num(t))

\* Variant: the thresholds of the risk insights.
risk_level_by_insight_thresholds(m) ==
    IF ValueGt(m.volatility, VOLATILITY_HIGH) THEN "High"
    ELSE IF ValueGt(m.volatility, VOLATILITY_LOW) THEN "Moderate"
    ELSE "Low"

\* line 592
risk_level_of(m) ==
    IF ValueGt(m.volatility, RISK_HIGH) THEN "High"
    ELSE IF ValueGt(m.volatility, RISK_MODERATE) THEN "Moderate"
    ELSE "Low"

\* Variant: a win rate of 60 is already bullish.
trend_insight_from_60(m) ==
    IF ~FLt(m.win_rate, Num(WIN_RATE_HIGH)) THEN <<"bullish-trend">>
    ELSE IF FLt(m.win_rate, Num(WIN_RATE_LOW)) THEN <<"bearish-trend">>
    ELSE <<"neutral-trend">>

\* lines 601-606
trend_insight(m) ==
    IF FGt(m.win_rate, Num(WIN_RATE_HIGH)) THEN <<"bullish-trend">>
    ELSE IF FLt(m.win_rate, Num(WIN_RATE_LOW)) THEN <<"bearish-trend">>
    ELSE <<"neutral-trend">>

\* lines 608-611
risk_insight(m) ==
    IF ValueGt(m.volatility, VOLATILITY_HIGH) THEN <<"high-risk">>
    ELSE IF ValueLt(m.volatility, VOLATILITY_LOW) THEN <<"low-risk">>
    ELSE <<>>

\* df['volume'].iloc[-5:]: the last five values, all of them when the window
\* has fewer
recent(x) == SubSeq(x, Max2(1, Len(x) - RECENT_BARS + 1), Len(x))

\* lines 613-614
volume_insight(w) ==
    LET volume == AsSeq([i \in 1..Len(w) |-> w[i].volume])
    IN  IF FGt(mean(recent(volume)), mean(volume))
        THEN <<"elevated-activity">> ELSE <<>>

\* Variant: pd.isna is not asked.
rsi_insight_unguarded(w) ==
    LET current_rsi == w[Len(w)].rsi
    IN  IF FGt(current_rsi, Num(RSI_OVERBOUGHT)) THEN <<"overbought">>
        ELSE IF FLt(current_rsi, Num(RSI_OVERSOLD)) THEN <<"oversold">>
        ELSE <<"neutral-rsi">>

\* lines 617-624
rsi_insight(w) ==
    LET current_rsi == w[Len(w)].rsi
    IN  IF ~IsNaN(current_rsi)
        THEN IF FGt(current_rsi, Num(RSI_OVERBOUGHT)) THEN <<"overbought">>
             ELSE IF FLt(current_rsi, Num(RSI_OVERSOLD)) THEN <<"oversold">>
             ELSE <<"neutral-rsi">>
        ELSE <<>>

\* Variant: the RSI insight is appended before the one on volume.
insights_rsi_before_volume(w, m) ==
    trend_insight(m) \o risk_insight(m) \o rsi_insight(w) \o volume_insight(w)

\* The list of lines 599-624, in the order of its append calls.
insights_of(w, m) ==
    trend_insight(m) \o risk_insight(m) \o volume_insight(w) \o rsi_insight(w)

\* What the file_uploader widget returns for a file with these candles
UploadedFile(candles) == [kind |-> "UploadedFile", candles |-> candles]

\* The frame of line 393 after a conversion of lines 396-401 raised: the
\* candles as delivered, without the date column and the derived columns.
Unconverted(candles) == [kind |-> "Unconverted", rows |-> candles]

\* Variant: the uploaded-file branch does not sort.
uploaded_table_unsorted(candles) ==
    IF ~CanConvert(candles) THEN {Unconverted(candles)}
    ELSE {DataFrame(Enrich(ParseCandles(candles)))}

\* Lines 389-434, the uploaded-file branch: the values df can hold after it.
\* df is assigned at line 393, and the except clause of lines 433-434 reports
\* the error without resetting it.
uploaded_table(candles) ==
    IF ~CanConvert(candles) THEN {Unconverted(candles)}
    ELSE { DataFrame(Enrich(sorted)) : sorted \in sort_values(ParseCandles(candles)) }

\* The orders a sort that is not stable can give rows of equal timestamp;
\* the sort itself draws nothing at random, so an installation gives one
\* batch one order, run after run.
SortRules == {1, 2}

\* The table the installation's sort yields, out of those possible.
Outcome(rule, tables) ==
    LET first == CHOOSE t \in tables : TRUE
    IN  IF rule = 1 \/ tables = {first} THEN first
        ELSE CHOOSE t \in tables : t # first

\* Lines 385-437: df of a run with this upload and this document
TableOf(upload, candles) ==
    IF upload # None
    THEN Outcome(sort_rule, uploaded_table(upload.candles))
    ELSE Outcome(sort_rule, load_candlestick_data(candles))

\* The script from line 439 on, with the table t that was loaded: sel is the
\* widget's value, <<>> on the first run, when the widget shows its default
\* (min_date, max_date).  With an empty window calculate_metrics returns {}
\* and metrics['current_price'] at line 478 raises KeyError.  A frame whose
\* conversion stopped has no derived column: df['date'] at line 444, or
\* df['daily_return'] in calculate_metrics, raises KeyError.
Main(t, sel) ==
    IF t.kind = "Unconverted"
    THEN /\ df' = t
         /\ selected_range' = <<>>
         /\ filtered_df' = None
         /\ metrics' = <<>>
         /\ risk_level' = ""
         /\ insights' = <<>>
         /\ status' = "KeyError"
    ELSE IF t # None /\ t.rows # <<>>
    THEN LET range == IF sel = <<>> THEN <<min_date(t), max_date(t)>> ELSE sel
             f == FilterRange(t, range)
             m == calculate_metrics(f)
         IN  /\ df' = t
             /\ selected_range' = range
             /\ filtered_df' = f
             /\ metrics' = m
             /\ risk_level' = IF m = <<>> THEN "" ELSE risk_level_of(m)
             /\ insights' = IF m = <<>> THEN <<>> ELSE insights_of(f.rows, m)
             /\ status' = IF m = <<>> THEN "KeyError" ELSE "rendered"
    ELSE /\ df' = t
         /\ selected_range' = <<>>
         /\ filtered_df' = None
         /\ metrics' = <<>>
         /\ risk_level' = ""
         /\ insights' = <<>>
         /\ status' = "warning"

\* No run yet, no upload, the file path as the page shows it first.
NoRun ==
    /\ uploaded_file = None
    /\ changes = 0
    /\ selected_range = <<>>
    /\ df = None
    /\ filtered_df = None
    /\ metrics = <<>>
    /\ risk_level = ""
    /\ insights = <<>>
    /\ status = "idle"

\* The sort rules that tell the runs over a document apart: one where no two
\* of its candles share a timestamp.
SortRulesFor(candles) ==
    { rule \in SortRules : rule <= Cardinality(load_candlestick_data(candles)) }

\* The page is opened: the script runs over the document.
FirstRun ==
    /\ status = "idle"
    /\ Main(TableOf(uploaded_file, doc), <<>>)
    /\ UNCHANGED inputVars
    /\ UNCHANGED exceptCandles

\* Values the date_input widget takes between min_value and max_value: the
\* start alone while the user is picking, the last day, or a day between
\* the first and the last that has no bar.
RangeChoices(t) ==
    { <<min_date(t)>>, <<max_date(t), max_date(t)>> }
        \cup { <<d, d>> : d \in {e \in min_date(t)..max_date(t) :
                                   /\ e = min_date(t) + 2
                                   /\ \A i \in 1..Len(t.rows) : t.rows[i].date # e} }

\* The user changes the date range, and the script runs again.
SelectRange ==
    /\ status = "rendered" \/ (status = "KeyError" /\ df.kind = "DataFrame")
    /\ LET t == TableOf(uploaded_file, doc)
       IN  \E sel \in RangeChoices(t) : Main(t, sel)
    /\ UNCHANGED inputVars
    /\ UNCHANGED exceptCandles

\* Documents the user points file_path at, or uploads, within a session
SessionDocuments == { Candles(h, n) : h \in Histories, n \in 0..MaxSessionLen }

\* The user enters another path in the text_input widget, and the script
\* runs over the document behind it.  The date_input widget is built anew
\* with the dates of the table as soon as these differ, and shows its default;
\* where they do not differ the range it keeps is one SelectRange can choose.
ChangeDocument ==
    /\ changes < MaxChanges
    /\ \E candles \in SessionDocuments :
          /\ candles # doc
          /\ doc' = candles
          /\ Main(TableOf(uploaded_file, candles), <<>>)
    /\ changes' = changes + 1
    /\ UNCHANGED <<uploaded_file, sort_rule>>
    /\ UNCHANGED exceptCandles

\* Documents the user uploads: well-formed ones, and ones with a cell that
\* is not a number.
UploadDocuments ==
    SessionDocuments
        \cup UNION { RawDocumentsOf(h, n) : h \in Histories, n \in 1..MaxUploadRawLen }

\* The user puts a file into the empty file_uploader widget, and the script
\* runs with it.
Upload ==
    /\ uploaded_file = None
    /\ \E candles \in UploadDocuments :
          /\ uploaded_file' = UploadedFile(candles)
          /\ Main(TableOf(UploadedFile(candles), doc), <<>>)
    /\ UNCHANGED <<doc, sort_rule, changes>>
    /\ UNCHANGED exceptCandles

\* ------------------------------------------------- pages/2_OHLC_Analysis.py
\* A JSON string and a JSON object; an object is a function on the keys it
\* holds.
JsonString(text) == [type |-> "string", value |-> text]

JsonObject(members) == [type |-> "object", value |-> members]

\* Marks a key the object is built without.
Absent == [type |-> "absent", value |-> 0]

\* The object with the members of cells that are not Absent
ObjectOf(cells) == [key \in {k \in DOMAIN cells : cells[k] # Absent} |-> cells[key]]

\* The "ohlc" member of a quote: missing, null, empty, with the open alone,
\* or complete.
OhlcCells ==
    { Absent, JsonNull, JsonObject(<<>>),
      JsonObject([open |-> JsonNumber(3)]),
      JsonObject([open |-> JsonNumber(3), high |-> JsonNumber(6),
                  low |-> JsonNumber(2), close |-> JsonNumber(4)]) }

LastPriceCells == {Absent, JsonNull, JsonNumber(0), JsonNumber(4)}

NetChangeCells == {Absent, JsonNumber(5), JsonNumber(-1)}

\* The quote object of an instrument: last_price, net_change and ohlc as
\* given, the other members all there or all missing.
Quote(symbol, last_price, net_change, ohlc, others) ==
    ObjectOf([symbol |-> IF others THEN JsonString(symbol) ELSE Absent,
              last_price |-> last_price,
              ohlc |-> ohlc,
              volume |-> IF others THEN JsonNumber(70) ELSE Absent,
              average_price |-> IF others THEN JsonNumber(5) ELSE Absent,
              net_change |-> net_change,
              upper_circuit_limit |-> IF others THEN JsonNumber(8) ELSE Absent,
              lower_circuit_limit |-> IF others THEN JsonNumber(1) ELSE Absent,
              timestamp |-> IF others THEN JsonString("09:15") ELSE Absent,
              total_buy_quantity |-> IF others THEN JsonNumber(30) ELSE Absent,
              total_sell_quantity |-> IF others THEN JsonNumber(20) ELSE Absent])

\* What tells the quotes of a snapshot apart
QuoteShapes ==
    [last_price : LastPriceCells, net_change : NetChangeCells,
     ohlc : OhlcCells, others : BOOLEAN]

\* The shapes of the quotes in a snapshot of several instruments: a complete
\* quote, a quote with the last price alone, one whose last price is 0, and
\* one whose ohlc is null.
SharedShapes ==
    { [last_price |-> JsonNumber(4), net_change |-> JsonNumber(5),
       ohlc |-> JsonObject([open |-> JsonNumber(3), high |-> JsonNumber(6),
                            low |-> JsonNumber(2), close |-> JsonNumber(4)]),
       others |-> TRUE],
      [last_price |-> JsonNumber(4), net_change |-> Absent, ohlc |-> Absent,
       others |-> FALSE],
      [last_price |-> JsonNumber(0), net_change |-> JsonNumber(5),
       ohlc |-> JsonObject([open |-> JsonNumber(3)]), others |-> TRUE],
      [last_price |-> JsonNumber(4), net_change |-> JsonNumber(-1),
       ohlc |-> JsonNull, others |-> TRUE] }

InstrumentKeys == <<"NSE_EQ|ACME", "NSE_EQ|BOLT", "NSE_EQ|CORE">>

Symbols == <<"ACME", "BOLT", "CORE">>

\* A member of the "data" object: the i-th instrument with a quote
Instrument(i, shape) ==
    [key |-> InstrumentKeys[i],
     value |-> Quote(Symbols[i], shape.last_price, shape.net_change,
                     shape.ohlc, shape.others)]

\* The "data" objects of n instruments, as the members in the order of the
\* document: the instruments in the order of their keys, or in the reverse.
InstrumentMapsOf(n) ==
    UNION { { AsSeq([j \in 1..n |-> Instrument(j, shapes[j])]),
              AsSeq([j \in 1..n |-> Instrument(n + 1 - j, shapes[n + 1 - j])]) } :
            shapes \in [1..n -> SharedShapes] }

\* The "data" objects: no instrument, one with any quote, or several.
InstrumentMaps ==
    {<<>>}
        \cup { <<Instrument(1, shape)>> : shape \in QuoteShapes }
        \cup UNION { InstrumentMapsOf(n) : n \in 2..MaxInstruments }

\* The documents ohlc.json can hold: the status missing, "success" or
\* "error", the data missing, null or an object.
Snapshots ==
    { ObjectOf([status |-> status_cell, data |-> data_cell]) :
        status_cell \in {Absent, JsonString("success"), JsonString("error")},
        data_cell \in {Absent, JsonNull} \cup { JsonObject(m) : m \in InstrumentMaps } }

\* Variant: a missing key gives null.
get_without_default(object, key, default) ==
    IF key \in DOMAIN object THEN object[key] ELSE JsonNull

\* dict.get(key, default)
get(object, key, default) ==
    IF key \in DOMAIN object THEN object[key] ELSE default

\* A float operation that raises instead of giving a value
Raised == [k |-> "raised", n |-> 0, d |-> 1]

\* x / y of two values of a document: ZeroDivisionError for a zero divisor,
\* TypeError for a value that is not a number.
truediv(x, y) ==
    IF x.type # "number" \/ y.type # "number" THEN Raised
    ELSE IF y.value = 0 THEN Raised
    ELSE Frac(x.value, y.value)

\* Variant: the quotient without the test for a zero last price.
net_change_percent_unguarded(stock_info) ==
    LET ratio == truediv(get(stock_info, "net_change", JsonNumber(0)),
                         get(stock_info, "last_price", JsonNumber(1)))
    IN  IF ratio = Raised THEN Raised ELSE FMul(ratio, Num(100))

\* line 78
net_change_percent_of(stock_info) ==
    IF get(stock_info, "last_price", JsonNumber(0)) # JsonNumber(0)
    THEN LET ratio == truediv(get(stock_info, "net_change", JsonNumber(0)),
                              get(stock_info, "last_price", JsonNumber(1)))
         IN  IF ratio = Raised THEN Raised ELSE FMul(ratio, Num(100))
    ELSE Num(0)

\* Lines 65-84 for one member of data: the record, or Raised when ohlc is
\* not an object (AttributeError on ohlc.get) or line 78 raises.
parsed_stock(instrument_key, stock_info) ==
    LET ohlc == get(stock_info, "ohlc", JsonObject(<<>>))
        percent == net_change_percent_of(stock_info)
    IN  IF ohlc.type # "object" \/ percent = Raised THEN Raised
        ELSE [instrument_key |-> instrument_key,
              symbol |-> get(stock_info, "symbol", JsonString("N/A")),
              last_price |-> get(stock_info, "last_price", JsonNumber(0)),
              open |-> get(ohlc.value, "open", JsonNumber(0)),
              high |-> get(ohlc.value, "high", JsonNumber(0)),
              low |-> get(ohlc.value, "low", JsonNumber(0)),
              close |-> get(ohlc.value, "close", JsonNumber(0)),
              volume |-> get(stock_info, "volume", JsonNumber(0)),
              average_price |-> get(stock_info, "average_price", JsonNumber(0)),
              net_change |-> get(stock_info, "net_change", JsonNumber(0)),
              net_change_percent |-> percent,
              upper_circuit |-> get(stock_info, "upper_circuit_limit", JsonNumber(0)),
              lower_circuit |-> get(stock_info, "lower_circuit_limit", JsonNumber(0)),
              timestamp |-> get(stock_info, "timestamp", JsonString("")),
              total_buy_quantity |-> get(stock_info, "total_buy_quantity", JsonNumber(0)),
              total_sell_quantity |-> get(stock_info, "total_sell_quantity", JsonNumber(0))]

\* Lines 61-87: the list of the records of data, None when data is not an
\* object or a record raises (lines 88-90).
parsed_stocks(data) ==
    LET stock_data == get(data, "data", JsonObject(<<>>))
    IN  IF stock_data.type # "object" THEN None
        ELSE LET items == stock_data.value
                 records == AsSeq([j \in 1..Len(items) |->
                                parsed_stock(items[j].key, items[j].value)])
             IN  IF \E j \in 1..Len(records) : records[j] = Raised THEN None
                 ELSE [kind |-> "list", items |-> records]

\* Variant: the status is not looked at.
parse_stock_data_unchecked(data) == parsed_stocks(data)

\* parse_stock_data of a document that json.load returned as a dict
parse_stock_data(data) ==
    IF get(data, "status", JsonNull) # JsonString("success") THEN None
    ELSE parsed_stocks(data)

\* The unique symbols of the records, in the order of their first record
SymbolsOf(records) ==
    LET first == {j \in 1..Len(records) :
                     \A i \in 1..(j - 1) : records[i].symbol # records[j].symbol}
    IN  { records[j].symbol.value : j \in first }

\* The script from line 92 on over the document in ohlc.json, with the
\* value the selectbox holds: "if json_data" is false for {}, "if stocks"
\* for None and for [].  The selectbox shows the first symbol until the user
\* chooses one.
OhlcPage(chosen) ==
    LET result == IF json_data = <<>> THEN None ELSE parse_stock_data(json_data)
    IN  /\ stocks' = result
        /\ IF result # None /\ result.items # <<>>
           THEN /\ page' = "dashboard"
                /\ selected_symbol' =
                      IF chosen \in SymbolsOf(result.items) THEN chosen
                      ELSE result.items[1].symbol.value
           ELSE /\ page' = IF json_data = <<>> \/ result # None THEN "blank" ELSE "error"
                /\ selected_symbol' = ""

\* The page is opened.
OpenOhlcPage ==
    /\ page = "idle"
    /\ OhlcPage("")
    /\ UNCHANGED json_data
    /\ UNCHANGED exceptSnapshot

\* The user chooses another stock in the selectbox, and the script runs
\* again.
SelectSymbol ==
    /\ page = "dashboard"
    /\ \E symbol \in SymbolsOf(stocks.items) \ {selected_symbol} : OhlcPage(symbol)
    /\ UNCHANGED json_data
    /\ UNCHANGED exceptSnapshot

\* The page was not opened.
NoPage ==
    /\ stocks = None
    /\ selected_symbol = ""
    /\ page = "idle"

\* --------------------------------------------------------------- modelcp.py
\* What requests.get does: it raises (no connection, a timeout), or it
\* returns a response with a status code and a body that is JSON or is not.
NoResponse == [raises |-> FALSE, status_code |-> 0, json |-> FALSE, body |-> ""]

Raising == [raises |-> TRUE, status_code |-> 0, json |-> FALSE, body |-> "timeout"]

HttpResponse(status_code, json, body) ==
    [raises |-> FALSE, status_code |-> status_code, json |-> json, body |-> body]

StatusCodes == {200, 401, 404, 429, 500}

Responses ==
    {Raising}
        \cup { HttpResponse(200, TRUE, body) : body \in {"{quotes 1}", "{quotes 2}"} }
        \cup { HttpResponse(n, TRUE, "{errors}") : n \in StatusCodes \ {200} }
        \cup { HttpResponse(n, FALSE, "<html>") : n \in StatusCodes }

\* How a call ends: with the parsed JSON, with a message, or with an
\* exception that leaves the function.
ReturnsJson(body) == [kind |-> "json", value |-> body]

ReturnsText(text) == [kind |-> "text", value |-> text]

Propagates(error) == [kind |-> "exception", value |-> error]

NotCalled == [kind |-> "none", value |-> ""]

\* A file that does not exist, and one open(name, "w") left empty
NoFile == [exists |-> FALSE, content |-> ""]

EmptyFile == [exists |-> TRUE, content |-> ""]

FileWith(content) == [exists |-> TRUE, content |-> content]

\* Lines 165-174, and lines 89-100 without their try: the file after the
\* call, and how the statements end.  With the status 200 the file is opened
\* for writing before response.json() parses the body.
fetch_and_store(r, file) ==
    IF r.raises THEN [file |-> file, ends |-> Propagates(r.body)]
    ELSE IF r.status_code = 200
    THEN IF r.json
         THEN [file |-> FileWith(r.body), ends |-> ReturnsJson(r.body)]
         ELSE [file |-> EmptyFile, ends |-> Propagates("JSONDecodeError")]
    ELSE [file |-> file, ends |-> ReturnsText(<<"Error", r.status_code, r.body>>)]

\* Lines 88-102: except Exception turns what is raised into a message.
get_ohlc(r, file) ==
    LET try == fetch_and_store(r, file)
    IN  IF try.ends.kind = "exception"
        THEN [file |-> try.file,
              ends |-> ReturnsText(<<"Exception occurred", try.ends.value>>)]
        ELSE try

\* Variant: the request and the dump inside try ... except Exception.
fetch_historical_candles_guarded(r, file) == get_ohlc(r, file)

\* Lines 165-174: no try around the request and the dump.
fetch_historical_candles(r, file) == fetch_and_store(r, file)

\* The client calls get_ohlc.
GetOhlc ==
    /\ \E r \in Responses :
          LET call == get_ohlc(r, ohlc_json)
          IN  /\ response' = r
              /\ ohlc_json' = call.file
              /\ returned' = call.ends
    /\ tool' = "get_ohlc"
    /\ UNCHANGED historic_candles_json
    /\ UNCHANGED exceptTools

\* The client calls fetch_historical_candles.
FetchHistoricalCandles ==
    /\ \E r \in Responses :
          LET call == fetch_historical_candles(r, historic_candles_json)
          IN  /\ response' = r
              /\ historic_candles_json' = call.file
              /\ returned' = call.ends
    /\ tool' = "fetch_historical_candles"
    /\ UNCHANGED ohlc_json
    /\ UNCHANGED exceptTools

\* The server was started and no tool called; the files are not there.
NoToolCall ==
    /\ ohlc_json = NoFile
    /\ historic_candles_json = NoFile
    /\ tool = ""
    /\ response = NoResponse
    /\ returned = NotCalled

\* ----------------------------------------------------------- StockAnalyst.py
JsonArray(items) == [type |-> "array", value |-> items]

\* A variable that nothing was assigned to
Unset == [type |-> "unset", value |-> 0]

\* What the LLM asks for: tool calls with the key "tool", or without it.
ToolCalls ==
    { [tool |-> "get_ohlc"], [tool |-> "fetch_historical_candles"], [tool |-> ""] }

\* The replies of the LLM: nothing, prose, one tool call as an object, or a
\* list of tool calls.
Replies ==
    { [kind |-> "empty", calls |-> <<>>], [kind |-> "prose", calls |-> <<>>] }
        \cup { [kind |-> "object", calls |-> <<call>>] : call \in ToolCalls }
        \cup { [kind |-> "list", calls |-> calls] :
                 calls \in UNION { [1..n -> ToolCalls] : n \in 0..MaxToolCalls } }

\* What a tool call gives: text that parses as a JSON object or as a JSON
\* list, text that is not JSON (the error strings of modelcp.py), or an
\* exception of call_tool.
RawOutputs ==
    { [parses |-> TRUE, parsed |-> JsonObject([status |-> JsonString("success")])],
      [parses |-> TRUE, parsed |-> JsonObject([status |-> JsonString("error")])],
      [parses |-> TRUE, parsed |-> JsonArray(<<JsonNumber(1)>>)],
      [parses |-> FALSE, parsed |-> JsonString("Error 401")] }

\* Variant: the parsed output is added to what the variable holds.
store_parsed_accumulating(content, parsed) ==
    IF content.type = "array" THEN JsonArray(Append(content.value, parsed))
    ELSE JsonArray(<<content, parsed>>)

\* line 209: result_content = parsed
store_parsed(content, parsed) == parsed

\* The button is pressed and the LLM replies (lines 87-180).  An empty reply
\* ends the run; prose makes json.loads raise before result_content is
\* assigned, and json.dumps(result_content) at line 228 ends the run with a
\* NameError.
Analyze ==
    /\ phase \in {"idle", "done", "crashed"}
    /\ \E reply \in Replies :
          /\ tool_calls' = reply.calls
          /\ phase' = IF reply.kind = "empty" THEN "done"
                      ELSE IF reply.kind = "prose" THEN "crashed"
                      ELSE "calling"
          /\ result_content' = IF reply.kind \in {"empty", "prose"} THEN Unset
                               ELSE JsonArray(<<>>)
    /\ position' = 1
    /\ raws' = <<>>
    /\ final_prompt' = Unset
    /\ UNCHANGED session_result
    /\ UNCHANGED exceptAnalyst

\* The loop passes a tool call without the key "tool" (line 191).
SkipToolCall ==
    /\ phase = "calling"
    /\ position <= Len(tool_calls)
    /\ tool_calls[position].tool = ""
    /\ position' = position + 1
    /\ UNCHANGED <<tool_calls, raws, result_content, final_prompt, session_result, phase>>
    /\ UNCHANGED exceptAnalyst

\* call_tool returns (lines 193-213): the output parses and replaces
\* result_content, or it does not and is appended to it; append on what is
\* not a list raises AttributeError, which the except clause of line 215
\* catches outside the loop.
ToolReturns ==
    /\ phase = "calling"
    /\ position <= Len(tool_calls)
    /\ tool_calls[position].tool # ""
    /\ \E raw \in RawOutputs :
          /\ raws' = Append(raws, raw)
          /\ IF raw.parses
             THEN /\ result_content' = store_parsed(result_content, raw.parsed)
                  /\ position' = position + 1
                  /\ phase' = phase
             ELSE IF result_content.type = "array"
             THEN /\ result_content' = JsonArray(Append(result_content.value, raw.parsed))
                  /\ position' = position + 1
                  /\ phase' = phase
             ELSE /\ result_content' = result_content
                  /\ position' = position
                  /\ phase' = "analysing"
    /\ UNCHANGED <<tool_calls, final_prompt, session_result>>
    /\ UNCHANGED exceptAnalyst

\* call_tool raises: the except clause of line 215 ends the loop.
ToolRaises ==
    /\ phase = "calling"
    /\ position <= Len(tool_calls)
    /\ tool_calls[position].tool # ""
    /\ phase' = "analysing"
    /\ UNCHANGED <<tool_calls, position, raws, result_content, final_prompt, session_result>>
    /\ UNCHANGED exceptAnalyst

\* The loop is through, or was left: the final analysis is asked for with
\* json.dumps(result_content), and result_content is stored in the session
\* (lines 219-243).
FinalAnalysis ==
    /\ \/ phase = "calling" /\ position > Len(tool_calls)
       \/ phase = "analysing"
    /\ final_prompt' = result_content
    /\ session_result' = result_content
    /\ phase' = "done"
    /\ UNCHANGED <<tool_calls, position, raws, result_content>>
    /\ UNCHANGED exceptAnalyst

\* The page before the button is pressed
NoAnalysis ==
    /\ tool_calls = <<>>
    /\ position = 1
    /\ raws = <<>>
    /\ result_content = Unset
    /\ final_prompt = Unset
    /\ session_result = Unset
    /\ phase = "idle"

\* ------------------------------------------------------------------ main.py
\* The query parameter "code": missing, empty, or an authorization code
Codes == {Absent, JsonString(""), JsonString("code-1"), JsonString("code-2")}

\* What a request to the Upstox API gives: an exception of requests, a body
\* that is not JSON, or a JSON object.
ApiFailures ==
    { [raises |-> TRUE, json |-> FALSE, object |-> <<>>],
      [raises |-> FALSE, json |-> FALSE, object |-> <<>>] }

ApiObject(object) == [raises |-> FALSE, json |-> TRUE, object |-> object]

\* Token responses: with an access token, with an empty one, with null or
\* without the key (an error object).
TokenResponses ==
    ApiFailures
        \cup { ApiObject(ObjectOf([access_token |-> cell, status |-> Absent])) :
                 cell \in {JsonString("token-1"), JsonString("token-2"),
                           JsonString(""), JsonNull} }
        \cup { ApiObject(ObjectOf([access_token |-> Absent,
                                   status |-> JsonString("error")])) }

QuoteResponses ==
    ApiFailures
        \cup { ApiObject([status |-> JsonString(text)]) : text \in {"success", "error"} }

\* A page for the browser: its heading, and the data it shows
Page(heading, data) == [heading |-> heading, data |-> data]

NoPageYet == Page("", <<>>)

\* The requests of callback()
TokenRequest(cell) == [url |-> "login/authorization/token", credential |-> cell]

QuoteRequest(cell) == [url |-> "market/quote/ltp", credential |-> cell]

\* Variant: every value counts as given.
not_value_never(cell) == FALSE

\* "not x" for the value of a key: None, null and "" are false.
not_value(cell) == cell.type \in {"absent", "null"} \/ cell = JsonString("")

\* The browser comes back from the login page (lines 29-48): without a code
\* the page of line 34 is returned and nothing sent, with one the token
\* request is sent.
Callback ==
    /\ pc = "listening"
    /\ callbacks < MaxCallbacks
    /\ callbacks' = callbacks + 1
    /\ tokens' = <<>>
    /\ \E cell \in Codes :
          /\ code' = cell
          /\ IF not_value(cell)
             THEN /\ html' = Page("Authorization failed or denied.", <<>>)
                  /\ outgoing' = <<>>
                  /\ pc' = "listening"
             ELSE /\ html' = NoPageYet
                  /\ outgoing' = <<TokenRequest(cell)>>
                  /\ pc' = "token"
    /\ UNCHANGED exceptCallback

\* requests.post returns or raises (lines 48-68): an exception, also the one
\* of response.json(), ends the callback with the error page of the
\* framework; tokens without an access token give the page of line 56;
\* with one the quote request is sent.
TokenResponds ==
    /\ pc = "token"
    /\ \E r \in TokenResponses :
          IF ~r.json
          THEN /\ tokens' = <<>>
               /\ html' = Page("Internal Server Error", <<>>)
               /\ outgoing' = outgoing
               /\ pc' = "listening"
          ELSE /\ tokens' = r.object
               /\ LET access_token == get(r.object, "access_token", Absent)
                  IN  IF not_value(access_token)
                      THEN /\ html' = Page("Token exchange failed.", <<>>)
                           /\ outgoing' = outgoing
                           /\ pc' = "listening"
                      ELSE /\ html' = NoPageYet
                           /\ outgoing' = Append(outgoing, QuoteRequest(access_token))
                           /\ pc' = "quote"
    /\ UNCHANGED <<code, callbacks>>
    /\ UNCHANGED exceptCallback

\* requests.get returns or raises (lines 68-77).
QuoteResponds ==
    /\ pc = "quote"
    /\ \E r \in QuoteResponses :
          html' = IF r.json THEN Page("Access token fetched!", r.object)
                  ELSE Page("Internal Server Error", <<>>)
    /\ pc' = "listening"
    /\ UNCHANGED <<code, outgoing, tokens, callbacks>>
    /\ UNCHANGED exceptCallback

\* The server is up and no callback came.
NoCallback ==
    /\ code = Absent
    /\ outgoing = <<>>
    /\ tokens = <<>>
    /\ html = NoPageYet
    /\ callbacks = 0
    /\ pc = "listening"

\* --------------------------------------------------------- expose_files.py
FIRST_PRINTABLE == 32

FIRST_AFTER_PRINTABLE == 127

\* File names, as the code points of their characters: "", "a", "a b", "~",
\* " ", "r.c", and names with a line feed, with DEL, with a unit separator,
\* with e acute.
Names ==
    { <<>>, <<97>>, <<97, 32, 98>>, <<126>>, <<32>>, <<114, 46, 99>>,
      <<97, 10>>, <<127>>, <<31, 97>>, <<114, 233>> }

\* line 28
valid_name(n) ==
    \A i \in 1..Len(n) : FIRST_PRINTABLE <= n[i] /\ n[i] < FIRST_AFTER_PRINTABLE

\* How asking ngrok for its tunnels ends (lines 49-50): with the URL, with
\* a refused connection, with a body that is not JSON, or with an empty
\* list of tunnels.
TunnelAnswers == {"url", "ConnectionError", "JSONDecodeError", "IndexError"}

\* container(name) is called: the name is validated and the directory
\* changed (lines 28-31); either can raise.
Container ==
    /\ at = "idle"
    /\ process = "running"
    /\ \E n \in Names, chdir_works \in BOOLEAN :
          /\ name' = n
          /\ at' = IF valid_name(n) /\ chdir_works THEN "validated" ELSE "raised"
          /\ exception' = IF ~valid_name(n) THEN "ValueError"
                          ELSE IF ~chdir_works THEN "FileNotFoundError"
                          ELSE exception
    /\ UNCHANGED <<httpd, ngrok, registered, timer, cleanups, process>>
    /\ UNCHANGED exceptContainer

\* Lines 34-38: the server is bound and its thread started, or the port is
\* taken.
StartServer ==
    /\ at = "validated"
    /\ process = "running"
    /\ \E bound \in BOOLEAN :
          /\ httpd' = IF bound THEN "serving" ELSE httpd
          /\ at' = IF bound THEN "serving" ELSE "raised"
          /\ exception' = IF bound THEN exception ELSE "OSError"
    /\ UNCHANGED <<name, ngrok, registered, timer, cleanups, process>>
    /\ UNCHANGED exceptContainer

\* Lines 41-46: ngrok is started, or its executable is not found.
StartNgrok ==
    /\ at = "serving"
    /\ process = "running"
    /\ \E found \in BOOLEAN :
          /\ ngrok' = IF found THEN "running" ELSE ngrok
          /\ at' = IF found THEN "tunnelling" ELSE "raised"
          /\ exception' = IF found THEN exception ELSE "FileNotFoundError"
    /\ UNCHANGED <<name, httpd, registered, timer, cleanups, process>>
    /\ UNCHANGED exceptContainer

\* Lines 49-51: the tunnel URL is asked for; every answer but the URL raises
\* and leaves container().
GetUrl ==
    /\ at = "tunnelling"
    /\ process = "running"
    /\ \E answer \in TunnelAnswers :
          /\ at' = IF answer = "url" THEN "url" ELSE "raised"
          /\ exception' = IF answer = "url" THEN exception ELSE answer
    /\ UNCHANGED <<name, httpd, ngrok, registered, timer, cleanups, process>>
    /\ UNCHANGED exceptContainer

\* Lines 54-65: cleanup is registered with atexit, the timeout thread is
\* started, and container() returns.
RegisterCleanup ==
    /\ at = "url"
    /\ process = "running"
    /\ registered' = TRUE
    /\ timer' = "sleeping"
    /\ at' = "returned"
    /\ UNCHANGED <<name, exception, httpd, ngrok, cleanups, process>>
    /\ UNCHANGED exceptContainer

\* Lines 54-56: httpd.shutdown() returns once serve_forever has left its
\* loop, at once when it already has; ngrok.terminate() does nothing to a
\* process that has ended.
after_cleanup(component, state) ==
    IF component = "httpd" THEN "shut_down" ELSE "terminated"

\* The timeout thread wakes up (lines 60-62).
TimeoutFires ==
    /\ timer = "sleeping"
    /\ process = "running"
    /\ httpd' = after_cleanup("httpd", httpd)
    /\ ngrok' = after_cleanup("ngrok", ngrok)
    /\ cleanups' = cleanups + 1
    /\ timer' = "done"
    /\ UNCHANGED <<name, at, exception, registered, process>>
    /\ UNCHANGED exceptContainer

\* The program ends after container() has returned or raised: a registered
\* cleanup runs, then the daemon threads end with the process.  ngrok is
\* another process and stays as it is.
Exit ==
    /\ at \in {"returned", "raised"}
    /\ process = "running"
    /\ process' = "exited"
    /\ IF registered
       THEN /\ httpd' = after_cleanup("httpd", httpd)
            /\ ngrok' = after_cleanup("ngrok", ngrok)
            /\ cleanups' = cleanups + 1
       ELSE /\ httpd' = IF httpd = "serving" THEN "killed" ELSE httpd
            /\ ngrok' = ngrok
            /\ cleanups' = cleanups
    /\ timer' = IF timer = "sleeping" THEN "killed" ELSE timer
    /\ UNCHANGED <<name, at, exception, registered>>
    /\ UNCHANGED exceptContainer

\* The program before container() is called
NoContainer ==
    /\ name = <<>>
    /\ at = "idle"
    /\ exception = "none"
    /\ httpd = "none"
    /\ ngrok = "none"
    /\ registered = FALSE
    /\ timer = "none"
    /\ cleanups = 0
    /\ process = "running"

\* ====================================================================
\* Specifications
\* ====================================================================
vars == <<candleVars, snapshotVars, toolVars, analystVars, callbackVars, containerVars>>

\* The other programs, not started
NoCandles ==
    /\ doc = <<>>
    /\ sort_rule = 1
    /\ NoRun

NoSnapshot ==
    /\ json_data = <<>>
    /\ NoPage

\* Nothing but the dashboard is in use.
Elsewhere ==
    /\ NoSnapshot
    /\ NoToolCall
    /\ NoAnalysis
    /\ NoCallback
    /\ NoContainer

\* The dashboard over the document behind file_path
Init ==
    /\ doc \in Documents \cup BoundaryDocuments
    /\ sort_rule \in SortRulesFor(doc)
    /\ NoRun
    /\ Elsewhere

\* The file behind file_path holds a cell that is not a number.
InitRaw ==
    /\ doc \in RawDocuments
    /\ sort_rule \in SortRulesFor(doc)
    /\ NoRun
    /\ Elsewhere

Next == FirstRun \/ SelectRange

Spec == Init /\ [][Next]_vars

SpecRaw == InitRaw /\ [][Next]_vars

\* The dashboard in a session in which the user changes the file path
InitReload ==
    /\ doc \in SessionDocuments
    /\ sort_rule \in SortRules
    /\ NoRun
    /\ Elsewhere

NextReload == FirstRun \/ SelectRange \/ ChangeDocument

SpecReload == InitReload /\ [][NextReload]_vars

\* The dashboard in a session in which the user uploads files
InitUpload ==
    /\ doc \in { Candles(h, MaxSessionLen) :
                    h \in {g \in Histories : g.order = "interleaved"} }
    /\ sort_rule \in SortRules
    /\ NoRun
    /\ Elsewhere

NextUpload == FirstRun \/ SelectRange \/ Upload

SpecUpload == InitUpload /\ [][NextUpload]_vars

\* The OHLC page over a document in ohlc.json
InitSnapshot ==
    /\ json_data \in Snapshots
    /\ NoPage
    /\ NoCandles
    /\ NoToolCall
    /\ NoAnalysis
    /\ NoCallback
    /\ NoContainer

NextSnapshot == OpenOhlcPage \/ SelectSymbol

SpecSnapshot == InitSnapshot /\ [][NextSnapshot]_vars

\* The tools of the MCP server, called in any order
InitTools ==
    /\ NoToolCall
    /\ NoCandles
    /\ NoSnapshot
    /\ NoAnalysis
    /\ NoCallback
    /\ NoContainer

NextTools == GetOhlc \/ FetchHistoricalCandles

SpecTools == InitTools /\ [][NextTools]_vars

\* The analyst page
InitAnalyst ==
    /\ NoAnalysis
    /\ NoCandles
    /\ NoSnapshot
    /\ NoToolCall
    /\ NoCallback
    /\ NoContainer

NextAnalyst ==
    Analyze \/ SkipToolCall \/ ToolReturns \/ ToolRaises \/ FinalAnalysis

SpecAnalyst == InitAnalyst /\ [][NextAnalyst]_vars

\* The server of the OAuth callback
InitCallback ==
    /\ NoCallback
    /\ NoCandles
    /\ NoSnapshot
    /\ NoToolCall
    /\ NoAnalysis
    /\ NoContainer

NextCallback == Callback \/ TokenResponds \/ QuoteResponds

SpecCallback == InitCallback /\ [][NextCallback]_vars

\* The file server.  The threads of the program keep running while the
\* process does: container() goes on to its next statement, and the timeout
\* thread wakes up when its sleep is over.  Nothing makes the program end.
InitContainer ==
    /\ NoContainer
    /\ NoCandles
    /\ NoSnapshot
    /\ NoToolCall
    /\ NoAnalysis
    /\ NoCallback

NextContainer ==
    \/ Container
    \/ StartServer
    \/ StartNgrok
    \/ GetUrl
    \/ RegisterCleanup
    \/ TimeoutFires
    \/ Exit

SpecContainer ==
    /\ InitContainer
    /\ [][NextContainer]_vars
    /\ WF_vars(StartServer)
    /\ WF_vars(StartNgrok)
    /\ WF_vars(GetUrl)
    /\ WF_vars(RegisterCleanup)
    /\ WF_vars(TimeoutFires)

\* ====================================================================
\* Properties
\* ====================================================================
Loaded == df # None

Rows == df.rows

Window == filtered_df.rows

\* A row of the table, and a candle of the document, as their six values.
RawCandle(r) == <<r.timestamp, r.open, r.high, r.low, r.close, r.volume>>

Delivered(c) ==
    <<c.timestamp.value, c.open.value, c.high.value, c.low.value,
      c.close.value, Num(c.volume.value)>>

CloseColumn == AsSeq([i \in 1..Len(Rows) |-> Rows[i].close])

\* close[lo] + ... + close[hi] of the table's rows lo..hi
WindowSum(lo, hi) == SumRange(CloseColumn, lo, hi)

\* C1: for a non-empty candle batch, whatever its order of delivery, the
\* table of load_candlestick_data is sorted non-decreasing by timestamp, has
\* as many rows as the batch has candles, and holds every candle exactly as
\* often as the batch does (none dropped, none duplicated).
C1_SortedSameLength ==
    (status # "idle" /\ doc # <<>>) =>
        /\ Loaded
        /\ Len(Rows) = Len(doc)
        /\ \A i \in 1..(Len(Rows) - 1) : Rows[i].timestamp <= Rows[i + 1].timestamp
        /\ LET delivered == AsSeq([j \in 1..Len(doc) |-> Delivered(doc[j])])
               loaded == AsSeq([j \in 1..Len(Rows) |-> RawCandle(Rows[j])])
           IN  \A j \in 1..Len(delivered) :
                   Cardinality({i \in 1..Len(loaded) : loaded[i] = delivered[j]})
                       = Cardinality({i \in 1..Len(delivered) :
                                         delivered[i] = delivered[j]})

\* A batch delivered newest first, with two candles of the same timestamp
\* and a candle with high < low, has been loaded.
C1_Witness ==
    /\ status = "rendered"
    /\ Len(doc) >= 3
    /\ doc[1].timestamp.value > doc[2].timestamp.value
    /\ \E i \in 1..(Len(Rows) - 1) : Rows[i].timestamp = Rows[i + 1].timestamp
    /\ \E i \in 1..Len(Rows) : Rows[i].high < Rows[i].low

SmaIsMean(v, i, N) ==
    IF i < N THEN IsNaN(v) ELSE v = Frac(WindowSum(i - N + 1, i), N)

\* C2: for N in {5, 20, 50}, sma_N of the row with index i (row i + 1) is
\* missing when i < N - 1 and is the arithmetic mean of close[i-N+1..i]
\* otherwise.
C2_SmaIsTrailingMean ==
    Loaded =>
        \A i \in 1..Len(Rows) :
            /\ SmaIsMean(Rows[i].sma_5, i, 5)
            /\ SmaIsMean(Rows[i].sma_20, i, 20)
            /\ SmaIsMean(Rows[i].sma_50, i, 50)

\* A table of 50 rows or more whose closes are not all the same: sma_50 is
\* defined in its 50th row and missing in its 49th.
C2_Witness ==
    /\ Loaded
    /\ Len(Rows) >= 50
    /\ ~IsNaN(Rows[50].sma_50)
    /\ IsNaN(Rows[49].sma_50)
    /\ Rows[50].sma_50 # Num(Rows[50].close)
    /\ ~IsNaN(Rows[5].sma_5)

\* C3: RSI is missing at every index i < 14 (rows 1..14): it is computed
\* only once 14 close-to-close changes exist.
C3_RsiMissingBefore14 ==
    Loaded => \A i \in 1..Len(Rows) : i <= 14 => IsNaN(Rows[i].rsi)

\* The rise, and the fall, of the close of each row against the row before;
\* the first row has neither.
Rises ==
    AsSeq([j \in 1..Len(Rows) |->
        IF j >= 2 /\ Rows[j].close > Rows[j - 1].close
        THEN Rows[j].close - Rows[j - 1].close ELSE 0])

Falls ==
    AsSeq([j \in 1..Len(Rows) |->
        IF j >= 2 /\ Rows[j].close < Rows[j - 1].close
        THEN Rows[j - 1].close - Rows[j].close ELSE 0])

\* C4: wherever RSI is defined it is a number between 0 and 100, and it is
\* exactly 100 in every row with 14 changes behind it (index >= 14) whose
\* trailing 14 changes hold no fall and at least one rise.
C4_RsiBounded ==
    Loaded =>
        \A i \in 1..Len(Rows) :
            LET v == Rows[i].rsi IN
            /\ ~IsNaN(v) => IsNum(v) /\ v.n >= 0 /\ v.n <= 100 * v.d
            /\ ( /\ i >= 15
                 /\ SumRange(Falls, i - 13, i) = 0
                 /\ SumRange(Rises, i - 13, i) > 0 ) => v = Num(100)

\* A row with 14 changes behind it, none of them a fall and one a rise.
C4_Witness ==
    /\ Loaded
    /\ Len(Rows) >= 16
    /\ SumRange(Falls, 2, 15) = 0
    /\ SumRange(Rises, 2, 15) > 0
    /\ Rows[15].rsi = Num(100)

\* Sample variance (N - 1 denominator) of close[lo..hi], in two passes: the
\* mean s / n, then the squares of the deviations (n * close - s) / n.
SampleVariance(lo, hi) ==
    LET n == hi - lo + 1
        s == WindowSum(lo, hi)
        sq == [j \in lo..hi |->
                 (n * CloseColumn[j] - s) * (n * CloseColumn[j] - s)]
    IN  Frac(SumRange(sq, lo, hi), n * n * (n - 1))

\* u - m and m - u for a band value u and a number m
BandMinus(u, m) == Surd(FSub(u.base, m), u.coef, u.rad)

MinusBand(m, u) == Surd(FSub(m, u.base), -u.coef, u.rad)

\* C5: bb_upper and bb_lower are defined exactly in the rows of index
\* i >= 19, and there bb_middle = sma_20 and
\* bb_upper - bb_middle = bb_middle - bb_lower = 2 * (sample standard
\* deviation of close[i-19..i]).
C5_BollingerSymmetric ==
    Loaded =>
        \A i \in 1..Len(Rows) :
            LET r == Rows[i] IN
            IF i < 20 THEN IsNaN(r.bb_upper) /\ IsNaN(r.bb_lower)
            ELSE /\ ~IsNaN(r.bb_upper)
                 /\ ~IsNaN(r.bb_lower)
                 /\ r.bb_middle = r.sma_20
                 /\ r.bb_middle = Frac(WindowSum(i - 19, i), 20)
                 /\ BandMinus(r.bb_upper, r.bb_middle)
                      = Surd(Num(0), 2, SampleVariance(i - 19, i))
                 /\ MinusBand(r.bb_middle, r.bb_lower)
                      = Surd(Num(0), 2, SampleVariance(i - 19, i))

\* A table whose 20th row has a band of non-zero width.
C5_Witness ==
    /\ Loaded
    /\ Len(Rows) >= 21
    /\ ~IsNaN(Rows[20].bb_upper)
    /\ Rows[20].bb_upper.rad.n > 0
    /\ IsNaN(Rows[19].bb_upper)

\* C6: daily_return is missing in the first row and is
\* (close[i] - close[i-1]) / close[i-1] * 100 in every later row, i - 1
\* being the row before in the sorted table.
C6_DailyReturn ==
    Loaded =>
        \A i \in 1..Len(Rows) :
            IF i = 1 THEN IsNaN(Rows[i].daily_return)
            ELSE /\ Rows[i - 1].timestamp <= Rows[i].timestamp
                 /\ Rows[i].daily_return
                      = Frac((Rows[i].close - Rows[i - 1].close) * 100, Rows[i - 1].close)

\* A batch delivered newest first whose return of the last bar differs from
\* the one the order of delivery would give.
C6_Witness ==
    /\ Loaded
    /\ Len(doc) >= 5
    /\ doc[1].timestamp.value > doc[2].timestamp.value
    /\ Rows[Len(Rows)].close # Rows[Len(Rows) - 1].close
    /\ Rows[Len(Rows)].daily_return
         # Frac((doc[Len(doc)].close.value - doc[Len(doc) - 1].close.value) * 100,
                doc[Len(doc) - 1].close.value)

\* C7: the volatility of a bar whose open is 0 is missing, and a bar with
\* open # 0 gets (high - low) / open * 100.
C7_VolatilityZeroOpen ==
    Loaded =>
        \A i \in 1..Len(Rows) :
            LET r == Rows[i] IN
            IF r.open = 0 THEN IsNaN(r.volatility)
            ELSE r.volatility = Frac((r.high - r.low) * 100, r.open)

\* C8: recent_trend is "Bullish" only when the last close is greater than
\* the defined sma_5 of the last bar, and is neither "Bullish" nor "Bearish"
\* when that sma_5 is missing.
C8_TrendNeutralWhenSmaMissing ==
    status = "rendered" =>
        LET last == Window[Len(Window)] IN
        /\ metrics.recent_trend = "Bullish" =>
              ~IsNaN(last.sma_5) /\ FGt(Num(last.close), last.sma_5)
        /\ IsNaN(last.sma_5) => metrics.recent_trend \notin {"Bullish", "Bearish"}

\* C9: the summary volatility is 0 whenever the window has fewer than 2
\* defined daily_return values, and is their sample standard deviation
\* otherwise.
C9_VolatilityZeroBelowTwoReturns ==
    status = "rendered" =>
        LET returns == SelectSeq([i \in 1..Len(Window) |-> Window[i].daily_return],
                                 NotNaN)
        IN  IF Len(returns) < 2 THEN metrics.volatility = Num(0)
            ELSE metrics.volatility = std(returns)

\* C10: for a window of one record or more, current_price is the close of
\* its last record and price_change is that close minus the close of its
\* second-to-last record; for a window of one record price_change and
\* price_change_pct are 0.
C10_PriceChange ==
    status = "rendered" =>
        LET n == Len(Window) IN
        /\ n >= 1
        /\ metrics.current_price = Window[n].close
        /\ n >= 2 => metrics.price_change = Window[n].close - Window[n - 1].close
        /\ n = 1 => metrics.price_change = 0 /\ metrics.price_change_pct = Num(0)

\* A window of three records or more whose last close differs from the one
\* before, which differs from the first.
C10_Witness ==
    /\ status = "rendered"
    /\ Len(Window) >= 3
    /\ metrics.price_change # 0
    /\ Window[1].close # Window[Len(Window) - 1].close

\* C11: for every non-empty window green_days + red_days = total_days,
\* green_days counts the bars with close > open, and
\* win_rate = green_days / total_days * 100, a number between 0 and 100.
C11_DayCountsAndWinRate ==
    status = "rendered" =>
        LET n == Len(Window)
            greens == Cardinality({i \in 1..n : Window[i].close > Window[i].open})
        IN  /\ metrics.total_days = n
            /\ metrics.green_days = greens
            /\ metrics.green_days + metrics.red_days = metrics.total_days
            /\ metrics.win_rate = Frac(greens * 100, n)
            /\ FGt(metrics.win_rate, Num(0)) \/ metrics.win_rate = Num(0)
            /\ FLt(metrics.win_rate, Num(100)) \/ metrics.win_rate = Num(100)

\* A window with a bar that closed above its open, a bar that closed at its
\* open and no bar that closed below it.
C11_Witness ==
    /\ status = "rendered"
    /\ Len(Window) >= 3
    /\ \E i \in 1..Len(Window) : Window[i].close > Window[i].open
    /\ \E i \in 1..Len(Window) : Window[i].close = Window[i].open
    /\ \A i \in 1..Len(Window) : Window[i].close >= Window[i].open

\* C12: a run whose window is empty ends with the EMPTY_INPUT error of the
\* summarizer; it neither gets a metrics value back from calculate_metrics
\* nor goes on to render from it.
C12_EmptyWindowIsEmptyInput ==
    (status # "idle" /\ filtered_df # None /\ Window = <<>>) =>
        status = "EMPTY_INPUT"

\* C13: for a document whose candles list is empty load_candlestick_data
\* fails: it does not return a table, empty or not.
C13_EmptyBatchFails ==
    (status # "idle" /\ doc = <<>>) => df = None

\* The cells of the document's candles in the converted columns.
HasCell(types) ==
    \E j \in 1..Len(doc) :
        \/ doc[j].timestamp.type \in types
        \/ \E column \in numeric_columns : doc[j][column].type \in types

\* C14: when a candle of the batch has a value that does not parse in open,
\* high, low, close or volume, or a timestamp that does not parse,
\* load_candlestick_data returns no table at all, and the run ends with the
\* warning.
C14_BadCellFailsBatch ==
    (status # "idle" /\ HasCell({"text"})) =>
        /\ df = None
        /\ filtered_df = None
        /\ status = "warning"

\* A batch of three candles or more, all well-formed but one after the
\* first, whose close is text, has been turned down as a whole.
C14_Witness ==
    /\ status = "warning"
    /\ df = None
    /\ Len(doc) >= 3
    /\ \E j \in 2..Len(doc) :
          /\ doc[j].close.type = "text"
          /\ \A i \in 1..Len(doc) : i # j => CanConvert(<<doc[i]>>)

\* C15: a candle with null, NaN or Infinity in open, high, low, close or
\* volume is rejected: no table is returned that carries the value.
C15_NonFiniteRejected ==
    (status # "idle" /\ HasCell({"null", "NaN", "Infinity"})) => df = None

\* C16: for a batch of n >= 1 valid candles the table is built and every
\* non-empty window of it is summarized without error; each indicator is
\* missing in the rows that lack its history (daily_return: first row;
\* sma_N: index < N - 1; Bollinger bands: index < 19; RSI: index < 14); a
\* single candle gives one row with daily_return missing and
\* is_green = (close > open).
C16_SparseHistoryIsMissing ==
    (status # "idle" /\ doc # <<>>) =>
        /\ Loaded
        /\ Len(Rows) = Len(doc)
        /\ Window # <<>> => status = "rendered" /\ metrics # <<>>
        /\ \A i \in 1..Len(Rows) :
              LET r == Rows[i] IN
              /\ i = 1 => IsNaN(r.daily_return)
              /\ i < 5 => IsNaN(r.sma_5)
              /\ i < 20 => IsNaN(r.sma_20) /\ IsNaN(r.bb_middle)
                             /\ IsNaN(r.bb_upper) /\ IsNaN(r.bb_lower)
              /\ i < 50 => IsNaN(r.sma_50)
              /\ i <= 14 => IsNaN(r.rsi)
        /\ Len(Rows) = 1 =>
              /\ IsNaN(Rows[1].daily_return)
              /\ Rows[1].is_green = (Rows[1].close > Rows[1].open)

\* The summary volatility is a number greater than t, and less than t
\* (t > 0): a standard deviation sqrt(v) is greater than t iff v > t * t.
VolatilityAbove(t) ==
    LET v == metrics.volatility
    IN  IF v.k = "surd" THEN v.rad.k = "num" /\ v.rad.n > t * t * v.rad.d
        ELSE v.k = "num" /\ v.n > t * v.d

VolatilityBelow(t) ==
    LET v == metrics.volatility
    IN  IF v.k = "surd" THEN v.rad.k = "num" /\ v.rad.n < t * t * v.rad.d
        ELSE v.k = "num" /\ v.n < t * v.d

\* How many of the insights are in a set of tags.
TagCount(tags) == Cardinality({i \in 1..Len(insights) : insights[i] \in tags})

Listed(tag) == \E i \in 1..Len(insights) : insights[i] = tag

TrendTags == {"bullish-trend", "bearish-trend", "neutral-trend"}

RiskTags == {"high-risk", "low-risk"}

RsiTags == {"overbought", "oversold", "neutral-rsi"}

\* C17: the insights hold exactly one trend tag (bullish iff win_rate > 60,
\* bearish iff win_rate < 40, neutral otherwise) and at most one risk tag
\* (high-risk iff volatility > 4, low-risk iff volatility < 2); a win rate
\* above 60 with a volatility below 2 gives the bullish and the low-risk
\* tag and no high-risk tag.
C17_TrendAndRiskTags ==
    status = "rendered" =>
        LET rate == metrics.win_rate IN
        /\ TagCount(TrendTags) = 1
        /\ Listed("bullish-trend") <=> rate.n > 60 * rate.d
        /\ Listed("bearish-trend") <=> rate.n < 40 * rate.d
        /\ Listed("neutral-trend") <=> (rate.n >= 40 * rate.d /\ rate.n <= 60 * rate.d)
        /\ TagCount(RiskTags) <= 1
        /\ Listed("high-risk") <=> VolatilityAbove(4)
        /\ Listed("low-risk") <=> VolatilityBelow(2)
        /\ (rate.n > 60 * rate.d /\ VolatilityBelow(2)) =>
              /\ SubSeq(insights, 1, 2) = <<"bullish-trend", "low-risk">>
              /\ ~Listed("high-risk")

\* A window with a win rate above 60 and a volatility between 0 and 2: the
\* bullish and the low-risk tag are listed.
C17_Witness ==
    /\ status = "rendered"
    /\ metrics.win_rate.n > 60 * metrics.win_rate.d
    /\ VolatilityBelow(2)
    /\ VolatilityAbove(1)
    /\ Listed("bullish-trend")
    /\ Listed("low-risk")

\* C18: an RSI tag is listed iff the RSI of the last bar of the window is
\* defined: overbought when it is above 70, oversold when it is below 30,
\* neutral-RSI otherwise, 30 and 70 included.
C18_RsiTag ==
    status = "rendered" =>
        LET current_rsi == Window[Len(Window)].rsi IN
        IF IsNaN(current_rsi) THEN TagCount(RsiTags) = 0
        ELSE /\ TagCount(RsiTags) = 1
             /\ Listed("overbought") <=> current_rsi.n > 70 * current_rsi.d
             /\ Listed("oversold") <=> current_rsi.n < 30 * current_rsi.d
             /\ Listed("neutral-rsi") <=>
                   ( /\ current_rsi.n >= 30 * current_rsi.d
                     /\ current_rsi.n <= 70 * current_rsi.d )

\* A window whose last bar has an RSI of exactly 70, another bar of which
\* has none: the neutral tag is listed.
C18_Witness ==
    /\ status = "rendered"
    /\ Window[Len(Window)].rsi = Num(70)
    /\ IsNaN(Window[1].rsi)
    /\ Listed("neutral-rsi")

\* Place of a tag in the order of the rules.
RuleOf(tag) ==
    IF tag \in TrendTags THEN 1
    ELSE IF tag \in RiskTags THEN 2
    ELSE IF tag = "elevated-activity" THEN 3
    ELSE 4

\* The volumes of the window, whole numbers in every document of Spec.
WindowVolume == AsSeq([i \in 1..Len(Window) |-> Window[i].volume.n])

\* C19: the tags are listed in the order of their rules (trend, risk,
\* elevated activity, RSI), each rule adds at most one tag, and the
\* elevated-activity tag is listed iff the mean volume of the last 5 bars
\* of the window is greater than the mean volume of the whole window,
\* whatever the other rules gave.
C19_InsightOrder ==
    status = "rendered" =>
        LET n == Len(Window)
            k == IF n < 5 THEN n ELSE 5
        IN  /\ \A i \in 1..(Len(insights) - 1) :
                  RuleOf(insights[i]) < RuleOf(insights[i + 1])
            /\ Listed("elevated-activity") <=>
                  SumRange(WindowVolume, n - k + 1, n) * n
                      > SumRange(WindowVolume, 1, n) * k

\* A window for which all four rules gave a tag.
C19_Witness ==
    /\ status = "rendered"
    /\ Len(insights) = 4
    /\ Listed("elevated-activity")
    /\ TagCount(RiskTags) = 1
    /\ TagCount(RsiTags) = 1

\* C20: the risk level is "High" iff the summary volatility is above 3,
\* "Moderate" iff it is above 2 and at most 3, and "Low" otherwise; the
\* high-risk tag is never listed next to a risk level other than "High".
C20_RiskLevel ==
    status = "rendered" =>
        /\ risk_level = "High" <=> VolatilityAbove(3)
        /\ risk_level = "Moderate" <=> (VolatilityAbove(2) /\ ~VolatilityAbove(3))
        /\ risk_level = "Low" <=> ~VolatilityAbove(2)
        /\ Listed("high-risk") => risk_level = "High"

\* A window whose volatility is above 3 and not above 4: the risk level is
\* "High" and no risk tag is listed.
C20_Witness ==
    /\ status = "rendered"
    /\ VolatilityAbove(3)
    /\ ~VolatilityAbove(4)
    /\ risk_level = "High"
    /\ TagCount(RiskTags) = 0

\* Number of rows of the table dated before the selected range
WindowOffset ==
    IF Len(selected_range) = 2
    THEN Cardinality({i \in 1..Len(Rows) : Rows[i].date < selected_range[1]})
    ELSE 0

\* C27: the date-range filter only removes rows.  The window holds the rows
\* of the table dated inside the range, in the table's order, and each of
\* them with the derived fields (daily_return, sma_N, rsi, Bollinger fields)
\* as computed over the full sorted history; so the first bar of a window
\* that is not the first bar of the history has a defined daily_return, and
\* recent_trend compares the window's last close with the sma_5 of the full
\* history.
C27_FilterOnlyRemovesRows ==
    status = "rendered" =>
        LET history == Enrich(Rows)
            n == Len(Window)
        IN  /\ n = Cardinality({i \in 1..Len(Rows) :
                       Len(selected_range) = 2 => InRange(Rows[i], selected_range)})
            /\ \A k \in 1..n :
                  /\ Window[k] = Rows[WindowOffset + k]
                  /\ Window[k] = history[WindowOffset + k]
            /\ WindowOffset > 0 => ~IsNaN(Window[1].daily_return)
            /\ metrics.recent_trend =
                  IF FGt(Num(Window[n].close), history[WindowOffset + n].sma_5)
                  THEN "Bullish" ELSE "Bearish"

\* A window of fewer than five bars at the end of a longer history: its
\* first bar has a return, and its last close is above an sma_5 that takes
\* in bars before the window.
C27_Witness ==
    /\ status = "rendered"
    /\ WindowOffset >= 4
    /\ Len(Window) < 5
    /\ ~IsNaN(Window[1].daily_return)
    /\ IsNaN(Enrich(Window)[1].daily_return)
    /\ ~IsNaN(Window[Len(Window)].sma_5)
    /\ metrics.recent_trend = "Bullish"

\* The table and the metrics as functions of the candles, of the order the
\* sort gives equal timestamps, and of the range: what a run shows that
\* reads nothing else.
TableFrom(rule, candles) ==
    IF ~CanConvert(candles) THEN None
    ELSE Outcome(rule, { DataFrame(Enrich(sorted)) :
                            sorted \in sort_values(ParseCandles(candles)) })

MetricsFrom(rule, candles, range) ==
    calculate_metrics(FilterRange(TableFrom(rule, candles), range))

StatusOfSnapshot ==
    IF "status" \in DOMAIN json_data THEN json_data["status"] ELSE JsonNull

ItemsOfSnapshot ==
    IF "data" \in DOMAIN json_data /\ json_data["data"].type = "object"
    THEN json_data["data"].value ELSE <<>>

\* The member of an object, 0 for a member the object does not hold
ValueOrZero(object, key) ==
    IF key \in DOMAIN object THEN object[key] ELSE JsonNumber(0)

\* No member of the quote is null.
WithoutNull(quote) == \A key \in DOMAIN quote : quote[key] # JsonNull

\* C21: parse_stock_data returns None, and no instrument record, for every
\* document whose top-level status is absent or differs from "success",
\* whatever its data holds: the page reports the error and shows no stock.
C21_BadStatusFails ==
    (page # "idle" /\ StatusOfSnapshot # JsonString("success")) =>
        /\ stocks = None
        /\ selected_symbol = ""
        /\ json_data # <<>> => page = "error"
        /\ parse_stock_data(json_data) = None

\* A document with the status "error" whose data holds two quotes that
\* parse: the page shows the error.
C21_Witness ==
    /\ page = "error"
    /\ StatusOfSnapshot = JsonString("error")
    /\ Len(ItemsOfSnapshot) = 2
    /\ parsed_stocks(json_data) # None

\* C22: net_change_percent of a record is net_change / last_price * 100 when
\* the last price of the quote is a number other than 0, and 0 when it is 0
\* or missing; a quote with the last price 0 or missing raises nothing, so
\* a document of such quotes parses.
C22_NetChangePercent ==
    page # "idle" =>
        /\ stocks # None =>
              \A j \in 1..Len(stocks.items) :
                  LET quote == ItemsOfSnapshot[j].value
                      percent == stocks.items[j].net_change_percent
                  IN  IF "last_price" \in DOMAIN quote
                            /\ quote["last_price"] # JsonNumber(0)
                      THEN percent = Frac(ValueOrZero(quote, "net_change").value * 100,
                                          quote["last_price"].value)
                      ELSE percent = Num(0)
        /\ ( /\ StatusOfSnapshot = JsonString("success")
             /\ ItemsOfSnapshot # <<>>
             /\ \A j \in 1..Len(ItemsOfSnapshot) :
                   LET quote == ItemsOfSnapshot[j].value
                   IN  /\ WithoutNull(quote)
                       /\ ValueOrZero(quote, "last_price") = JsonNumber(0) )
              => stocks # None

\* Two quotes with the net change 5, one with the last price 0 and one with
\* the last price 4: the records hold 0 and 125.
C22_Witness ==
    /\ page = "dashboard"
    /\ Len(stocks.items) = 2
    /\ \E i, j \in 1..2 :
          /\ ItemsOfSnapshot[i].value["last_price"] = JsonNumber(0)
          /\ ItemsOfSnapshot[i].value["net_change"] = JsonNumber(5)
          /\ stocks.items[i].net_change_percent = Num(0)
          /\ stocks.items[j].net_change = JsonNumber(5)
          /\ stocks.items[j].net_change_percent = Num(125)

\* C23: for a document with the status "success", parse_stock_data returns
\* one record per key of data, in the order of the document; a numeric field
\* whose member the quote lacks is 0 in the record, and so are open, high,
\* low and close of a quote without ohlc; a quote that lacks members never
\* makes the parse fail.
C23_OneRecordPerInstrument ==
    ( /\ page # "idle"
      /\ StatusOfSnapshot = JsonString("success")
      /\ "data" \in DOMAIN json_data => json_data["data"].type = "object"
      /\ \A j \in 1..Len(ItemsOfSnapshot) : WithoutNull(ItemsOfSnapshot[j].value) )
    => /\ stocks # None
       /\ Len(stocks.items) = Len(ItemsOfSnapshot)
       /\ \A j \in 1..Len(ItemsOfSnapshot) :
             LET quote == ItemsOfSnapshot[j].value
                 record == stocks.items[j]
                 ohlc == IF "ohlc" \in DOMAIN quote THEN quote["ohlc"].value ELSE <<>>
             IN  /\ record.instrument_key = ItemsOfSnapshot[j].key
                 /\ record.last_price = ValueOrZero(quote, "last_price")
                 /\ record.open = ValueOrZero(ohlc, "open")
                 /\ record.high = ValueOrZero(ohlc, "high")
                 /\ record.low = ValueOrZero(ohlc, "low")
                 /\ record.close = ValueOrZero(ohlc, "close")
                 /\ record.volume = ValueOrZero(quote, "volume")
                 /\ record.average_price = ValueOrZero(quote, "average_price")
                 /\ record.net_change = ValueOrZero(quote, "net_change")
                 /\ record.upper_circuit = ValueOrZero(quote, "upper_circuit_limit")
                 /\ record.lower_circuit = ValueOrZero(quote, "lower_circuit_limit")
                 /\ record.total_buy_quantity = ValueOrZero(quote, "total_buy_quantity")
                 /\ record.total_sell_quantity = ValueOrZero(quote, "total_sell_quantity")

\* Two instruments, the second key of the catalogue first in the document,
\* one of them with the last price alone: two records in the order of the
\* document, the one of the bare quote with 0 for open and volume.
C23_Witness ==
    /\ page = "dashboard"
    /\ Len(stocks.items) = 2
    /\ stocks.items[1].instrument_key = InstrumentKeys[2]
    /\ stocks.items[2].instrument_key = InstrumentKeys[1]
    /\ \E j \in 1..2 :
          /\ DOMAIN ItemsOfSnapshot[j].value = {"last_price"}
          /\ stocks.items[j].open = JsonNumber(0)
          /\ stocks.items[j].volume = JsonNumber(0)
          /\ stocks.items[j].last_price = JsonNumber(4)

\* C25: get_ohlc and fetch_historical_candles always return a value: the
\* parsed JSON when the API answers with the status 200, and an error string
\* for every failure, a status other than 200 as well as a request that
\* raises; neither lets an exception leave the function; and a call writes
\* its file only when the status is 200.
C25_ToolsAlwaysReturn ==
    [][/\ returned'.kind \in {"json", "text"}
       /\ returned'.kind = "json" =>
             ~response'.raises /\ response'.status_code = 200
       /\ (response'.raises \/ response'.status_code # 200) =>
             /\ returned'.kind = "text"
             /\ ohlc_json' = ohlc_json
             /\ historic_candles_json' = historic_candles_json]_toolVars

\* The output parses as a JSON object.
ObjectOutput(raw) == raw.parses /\ raw.parsed.type = "object"

\* C28: when the outputs of all executed tool calls parse as JSON objects,
\* the result stored in the session, which is also the data given to the
\* final analysis, is the parsed output of the last executed tool call alone:
\* each output replaces the one before.  And an output that is not JSON right
\* after one that is a JSON object ends the loop: no tool call is executed
\* after it.
C28_LastOutputAlone ==
    /\ (phase = "done" /\ final_prompt # Unset) =>
          /\ session_result = final_prompt
          /\ (raws # <<>> /\ \A i \in 1..Len(raws) : ObjectOutput(raws[i])) =>
                session_result = raws[Len(raws)].parsed
    /\ \A i \in 1..(Len(raws) - 1) :
          (ObjectOutput(raws[i]) /\ ~raws[i + 1].parses) =>
              /\ Len(raws) = i + 1
              /\ phase # "calling"

\* Three tool calls were executed, each with a JSON object for its output
\* and the last with another than the one before: the session holds the
\* last.
C28_Witness ==
    /\ phase = "done"
    /\ Len(raws) = 3
    /\ \A i \in 1..3 : ObjectOutput(raws[i])
    /\ raws[3].parsed # raws[2].parsed
    /\ session_result = raws[3].parsed
    /\ final_prompt = raws[3].parsed

\* The value is a string that is not empty.
GivenString(cell) == cell.type = "string" /\ cell.value # ""

\* The access token of the token response, Absent without one
AccessTokenReceived ==
    IF "access_token" \in DOMAIN tokens THEN tokens["access_token"] ELSE Absent

\* C29: the callback contacts the token endpoint only when the request
\* carries a code, and the quote endpoint only after a token response that
\* holds an access token.  Without a code it answers "Authorization failed
\* or denied" and sends nothing; with a token response without an access
\* token it answers "Token exchange failed" and sends no quote request.
C29_RequestsInOrder ==
    /\ Len(outgoing) <= 2
    /\ Len(outgoing) >= 1 =>
          /\ GivenString(code)
          /\ outgoing[1] = TokenRequest(code)
    /\ Len(outgoing) = 2 =>
          /\ GivenString(AccessTokenReceived)
          /\ outgoing[2] = QuoteRequest(AccessTokenReceived)
    /\ (callbacks > 0 /\ ~GivenString(code)) =>
          /\ html.heading = "Authorization failed or denied."
          /\ outgoing = <<>>
          /\ pc = "listening"
    /\ (tokens # <<>> /\ ~GivenString(AccessTokenReceived)) =>
          /\ html.heading = "Token exchange failed."
          /\ Len(outgoing) = 1
          /\ pc = "listening"

\* The second callback carries a code, and the token response holds an
\* error and no access token: the answer is "Token exchange failed" after
\* the token request alone.
C29_Witness ==
    /\ callbacks = 2
    /\ GivenString(code)
    /\ "status" \in DOMAIN tokens
    /\ "access_token" \notin DOMAIN tokens
    /\ html.heading = "Token exchange failed."
    /\ outgoing = <<TokenRequest(code)>>

\* C30: once container(name) has started the HTTP server and the ngrok
\* process, both are eventually shut down by cleanup(), on every path, the
\* one where obtaining the tunnel URL fails included; a name with a
\* character outside printable ASCII is rejected before the server or the
\* tunnel is started; and a run of cleanup() after an earlier one leaves
\* both shut down.
BothStarted == httpd = "serving" /\ ngrok = "running"

BothShutDown == httpd = "shut_down" /\ ngrok = "terminated"

RejectedBeforeStart ==
    (at # "idle" /\ ~valid_name(name))
        => /\ exception = "ValueError"
           /\ httpd = "none"
           /\ ngrok = "none"

SecondCleanupHarmless == cleanups >= 1 => BothShutDown

C30_StartedIsShutDown ==
    /\ BothStarted ~> BothShutDown
    /\ [](RejectedBeforeStart /\ SecondCleanupHarmless)

====
